---- MODULE Spec2Model ----
(***************************************************************************)
(* splatlog: role / verbosity level resolution (SplatManager, Role) and    *)
(* the priority-handler aware effective level and dispatch (SplatLogger).  *)
(*                                                                         *)
(* Optional values (Python None) are sequences of length 0 or 1:           *)
(* None == <<>>, a present value x is <<x>>.                               *)
(***************************************************************************)
EXTENDS Integers, Sequences, FiniteSets, TLC

\* ------------------------------------------------------------------------
\* Levels (src/splatlog/levels.py)
\* ------------------------------------------------------------------------
NOTSET == 0

DEBUG == 10

INFO == 20

WARNING == 30

ERROR == 40

CRITICAL == 50

\* roles.py:28 and splat_manager.py:28
DEFAULT_ROLE_LEVEL == WARNING

\* sys.maxsize, the open upper bound of the last verbosity range.  The
\* model checker's integers are 32 bits wide, so the sentinel is the largest
\* representable integer here as it is in the interpreter.
sys_maxsize == 2147483647

None == <<>>

Some(x) == <<x>>

\* ------------------------------------------------------------------------
\* Bounds of the model
\* ------------------------------------------------------------------------
\* verbosities 0..MaxVerbosity are passed to setVerbosity
MaxVerbosity == 4

\* ------------------------------------------------------------------------
\* The logger hierarchy (built by the logging library from dotted names)
\* ------------------------------------------------------------------------
Root == "root"

SplatLoggers == {"pkg", "pkg.sub"}

Loggers == {Root} \cup SplatLoggers

\* logging.Logger.parent, as logging.Manager fixes it up from the names
parent == [l \in Loggers |->
            IF l = "pkg.sub" THEN Some("pkg")
            ELSE IF l = "pkg" THEN Some(Root)
            ELSE None]

\* Handlers that exist in the process.  p1 and p2 are PriorityHandler
\* instances, r1 is a plain logging.Handler.
PriorityHandlers == {"p1", "p2"}

Handlers == PriorityHandlers \cup {"r1"}

\* isinstance(handler, PriorityHandler)
isPriorityHandler(h) == h \in PriorityHandlers

\* the SplatManager instance, as the owner of handler slots
Manager == "manager"

\* the objects that have the console / file handler descriptors
Owners == SplatLoggers \cup {Manager}

\* the descriptors' names; the attribute _<name> holds the handler
SlotNames == {"console", "file"}

\* getattr(owner, self._attr_name, None) before anything was set
NoSlots == [console |-> None, file |-> None]

\* the entry that logging.Logger.addHandler(None) appends to the handler list
NoneHandler == "None"

\* ------------------------------------------------------------------------
\* Sorting and ranges shared by Role and VerbosityLevelResolver
\* ------------------------------------------------------------------------
Min(S) == CHOOSE x \in S : \A y \in S : x <= y

Max(S) == CHOOSE x \in S : \A y \in S : x >= y

RECURSIVE InsertByVerbosity(_, _)
\* one step of the stable sort: x goes after every pair whose verbosity is
\* less than or equal to its own
InsertByVerbosity(s, x) ==
    IF s = <<>> THEN <<x>>
    ELSE IF s[1][1] <= x[1] THEN <<s[1]>> \o InsertByVerbosity(Tail(s), x)
    ELSE <<x>> \o s

RECURSIVE SortedByVerbosity(_)
\* sorted(levels, key=lambda vl: vl[0]): stable, ascending by verbosity
SortedByVerbosity(s) ==
    IF s = <<>> THEN <<>>
    ELSE InsertByVerbosity(SortedByVerbosity(SubSeq(s, 1, Len(s) - 1)), s[Len(s)])

\* tuple((range(v_1, v_2), l_1) for (v_1, l_1), (v_2, _) in pairwise(s))
PairwiseRanges(s) ==
    [i \in 1..(Len(s) - 1) |-> [lo |-> s[i][1], hi |-> s[i + 1][1], level |-> s[i][2]]]

\* verbosity in range(lo, hi)
InRange(v, rng) == rng.lo <= v /\ v < rng.hi

\* ------------------------------------------------------------------------
\* Role (src/splatlog/roles.py)
\* ------------------------------------------------------------------------
Role(levels, default, builtin) ==
    [verbosity_levels |-> levels, default_level |-> default, is_builtin |-> builtin]

APP_ROLE == Role(<< <<0, INFO>>, <<1, DEBUG>> >>, DEFAULT_ROLE_LEVEL, TRUE)

LIB_ROLE == Role(<< <<0, WARNING>>, <<3, INFO>>, <<4, DEBUG>> >>, DEFAULT_ROLE_LEVEL, TRUE)

\* Role.verbosity_ranges
verbosity_ranges(role) ==
    PairwiseRanges(SortedByVerbosity(Append(role.verbosity_levels, <<sys_maxsize, NOTSET>>)))

\* mutant: no verbosity is looked up like verbosity 0
get_level_NoneAsZero(role, verbosity) ==
    LET rngs == verbosity_ranges(role)
        v    == IF verbosity = None THEN 0 ELSE verbosity[1]
        hit  == {i \in DOMAIN rngs : InRange(v, rngs[i])}
    IN  IF hit = {} THEN role.default_level ELSE rngs[Min(hit)].level

\* Role.get_level(verbosity), verbosity an optional integer
get_level(role, verbosity) ==
    IF verbosity = None THEN role.default_level
    ELSE LET rngs == verbosity_ranges(role)
             hit  == {i \in DOMAIN rngs : InRange(verbosity[1], rngs[i])}
         IN  IF hit = {} THEN role.default_level ELSE rngs[Min(hit)].level

\* ------------------------------------------------------------------------
\* State
\* ------------------------------------------------------------------------
VARIABLES
    level,          \* logging.Logger.level of every logger
    propagate,      \* logging.Logger.propagate
    handlers,       \* logging.Logger.handlers (order plays no part below)
    cache,          \* logging.Logger._cache: pairs <<level, is_enabled>>
    hlevel,         \* logging.Handler.level
    hmanager,       \* PriorityHandler.manager is not None
    verbosity,      \* SplatManager._verbosity
    roles,          \* SplatManager._roles: role name -> optional Role
    role_name,      \* SplatLogger._role_name
    loggersByRole,  \* SplatManager._loggersByRole
    emittedNoHandlerWarning,  \* logging.Manager.emittedNoHandlerWarning
    hfilter,        \* the VerbosityLevelsFilter of a handler, if it has one
    moduleVerbosity,  \* verbosity_state._verbosity, read by the filters
    slot,           \* owner -> the value of its _console_handler / _file_handler
    resolver,       \* a VerbosityLevelResolver: its _levels and _ranges, if built
    nameToLevel,    \* the level names registered with logging.addLevelName
    lastResort,     \* logging.lastResort: the level of the handler, if there is one
    raiseExceptions,  \* logging.raiseExceptions
    emitRaises,     \* handler -> the exception its render / encode step raises
    threads,        \* thread -> the call it is in, its position and its locals
    handler_lock,   \* owner -> the holder of its handler_lock and the depth
    last            \* the last call made and what it returned

vars == <<level, propagate, handlers, cache, hlevel, hmanager, verbosity, roles,
          role_name, loggersByRole, emittedNoHandlerWarning, hfilter,
          moduleVerbosity, slot, resolver, nameToLevel, lastResort,
          raiseExceptions, emitRaises, threads, handler_lock, last>>

valueVars == <<resolver, nameToLevel>>

loggingVars == <<lastResort, raiseExceptions, emitRaises>>

threadVars == <<threads, handler_lock>>

filterVars == <<hfilter, moduleVerbosity>>

managerVars == <<verbosity, roles, role_name, loggersByRole>>

\* names under which roles are created, assigned and deleted
RoleNames == {"app", "lib", "x"}

\* a call record; every call fills in the fields it has (cached: the
\* enabled-for cache as it was when a handler call began)
NoCall == [op |-> "none", logger |-> "", role |-> "", handler |-> "",
           owner |-> "", slot |-> "", arg |-> None, res |-> None, out |-> "",
           enabled |-> FALSE, delivered |-> {}, failed |-> {},
           lastResort |-> FALSE, warned |-> FALSE, cached |-> <<>>]

\* ------------------------------------------------------------------------
\* level_for (src/splatlog/levels.py); strings are sequences of characters
\* ------------------------------------------------------------------------
LowerCase == <<"a", "b", "c", "d", "e", "f", "g", "h", "i", "j", "k", "l", "m", "n", "o", "p", "q", "r", "s", "t", "u", "v", "w", "x", "y", "z">>

UpperCase == <<"A", "B", "C", "D", "E", "F", "G", "H", "I", "J", "K", "L", "M", "N", "O", "P", "Q", "R", "S", "T", "U", "V", "W", "X", "Y", "Z">>

Digits == <<"0", "1", "2", "3", "4", "5", "6", "7", "8", "9">>

\* str.upper, one character
upperChar(c) ==
    IF \E i \in DOMAIN LowerCase : LowerCase[i] = c
    THEN UpperCase[CHOOSE i \in DOMAIN LowerCase : LowerCase[i] = c]
    ELSE c

\* str.upper
upper(str) == [i \in DOMAIN str |-> upperChar(str[i])]

\* str.isdigit: not empty, and every character a digit
isdigit(str) ==
    str # <<>> /\ \A i \in DOMAIN str : \E d \in DOMAIN Digits : Digits[d] = str[i]

RECURSIVE int(_)
\* int(str) for a string of digits
int(str) ==
    IF str = <<>> THEN 0
    ELSE int(SubSeq(str, 1, Len(str) - 1)) * 10
            + (CHOOSE d \in DOMAIN Digits : Digits[d] = str[Len(str)]) - 1

\* the items of the dict LEVELS_BY_NAME
LEVELS_BY_NAME ==
    << <<<<"C", "R", "I", "T", "I", "C", "A", "L">>, CRITICAL>>,
       <<<<"F", "A", "T", "A", "L">>, CRITICAL>>,
       <<<<"E", "R", "R", "O", "R">>, ERROR>>,
       <<<<"W", "A", "R", "N", "I", "N", "G">>, WARNING>>,
       <<<<"I", "N", "F", "O">>, INFO>>,
       <<<<"D", "E", "B", "U", "G">>, DEBUG>>,
       <<<<"N", "O", "T", "S", "E", "T">>, NOTSET>> >>

LEVEL_SET == {LEVELS_BY_NAME[i][2] : i \in DOMAIN LEVELS_BY_NAME}

\* a setting handed to level_for: a string, an integer, or something else
StrSetting(str) == [kind |-> "str", s |-> str, i |-> 0]

IntSetting(n) == [kind |-> "int", s |-> <<>>, i |-> n]

ListSetting == [kind |-> "list", s |-> <<>>, i |-> 0]

\* what a call gives: a value, or the error raised
Returns(v) == [out |-> "ok", res |-> Some(v)]

Raises(e) == [out |-> e, res |-> None]

\* level_for, lines 109-115: the setting is an integer
level_for_int(n) ==
    IF n \in LEVEL_SET THEN Returns(n)
    ELSE Raises("ValueError: Unknown log level integer")

\* mutant: the name is looked up as it is written
level_for_NoUpper(setting) ==
    IF setting.kind = "str"
    THEN IF isdigit(setting.s) THEN level_for_int(int(setting.s))
         ELSE IF \E k \in DOMAIN LEVELS_BY_NAME : LEVELS_BY_NAME[k][1] = setting.s
              THEN Returns(LEVELS_BY_NAME[CHOOSE k \in DOMAIN LEVELS_BY_NAME :
                                            LEVELS_BY_NAME[k][1] = setting.s][2])
              ELSE Raises("ValueError: Unknown log level name")
    ELSE IF setting.kind = "int" THEN level_for_int(setting.i)
    ELSE Raises("TypeError")

level_for(setting) ==
    IF setting.kind = "str"
    THEN IF isdigit(setting.s) THEN level_for_int(int(setting.s))
         ELSE LET upper_case_value == upper(setting.s)
              IN  IF \E k \in DOMAIN LEVELS_BY_NAME :
                        LEVELS_BY_NAME[k][1] = upper_case_value
                  THEN Returns(LEVELS_BY_NAME[CHOOSE k \in DOMAIN LEVELS_BY_NAME :
                                    LEVELS_BY_NAME[k][1] = upper_case_value][2])
                  ELSE Raises("ValueError: Unknown log level name")
    ELSE IF setting.kind = "int" THEN level_for_int(setting.i)
    ELSE Raises("TypeError")

\* ------------------------------------------------------------------------
\* VerbosityLevelResolver and VerbosityLevelsFilter (src/splatlog/verbosity)
\* ------------------------------------------------------------------------
\* logger and scope names as strings of characters
Chars == [n \in {"root", "pkg", "pkg.sub", "pk"} |->
            IF n = "root" THEN <<"r", "o", "o", "t">>
            ELSE IF n = "pkg" THEN <<"p", "k", "g">>
            ELSE IF n = "pk" THEN <<"p", "k">>
            ELSE <<"p", "k", "g", ".", "s", "u", "b">>]

\* str.startswith
startswith(s, prefix) ==
    Len(prefix) <= Len(s) /\ SubSeq(s, 1, Len(prefix)) = prefix

isNameOrAncestorName(loggerName, ancestorName) ==
    IF ~startswith(loggerName, ancestorName) THEN FALSE
    ELSE \/ Len(ancestorName) = Len(loggerName)
         \/ loggerName[Len(ancestorName) + 1] = "."

\* typings.isVerbosity, for an integer
isVerbosity(x) == x >= 0 /\ x < sys_maxsize

\* mutant: the pairs are not sorted by verbosity before they are paired up
computeVerbosityRanges_Unsorted(verbosityLevels) ==
    PairwiseRanges(Append(verbosityLevels, <<sys_maxsize, NOTSET>>))

\* VerbosityLevelResolver.computeVerbosityRanges
computeVerbosityRanges(verbosityLevels) ==
    PairwiseRanges(SortedByVerbosity(Append(verbosityLevels, <<sys_maxsize, NOTSET>>)))

\* VerbosityLevelResolver.getLevel: the level of the first range holding the
\* verbosity, or None
getLevel(ranges, v) ==
    LET hit == {i \in DOMAIN ranges : InRange(v, ranges[i])}
    IN  IF hit = {} THEN None ELSE Some(ranges[Min(hit)].level)

\* mutant: a scope matches every logger name it is a prefix of
filter_PrefixMatch(verbosityLevels, name, levelno) ==
    IF moduleVerbosity = None THEN TRUE
    ELSE LET hit == {i \in DOMAIN verbosityLevels :
                        startswith(Chars[name], Chars[verbosityLevels[i][1]])}
         IN  IF hit = {} THEN TRUE
             ELSE LET effectiveLevel ==
                          getLevel(computeVerbosityRanges(verbosityLevels[Min(hit)][2]),
                                   moduleVerbosity[1])
                  IN  effectiveLevel = None \/ levelno >= effectiveLevel[1]

\* VerbosityLevelsFilter.filter for a record of logger `name` at `levelno`;
\* verbosityLevels is the filter's name -> resolver mapping in insertion order
filter(verbosityLevels, name, levelno) ==
    IF moduleVerbosity = None THEN TRUE
    ELSE LET hit == {i \in DOMAIN verbosityLevels :
                        isNameOrAncestorName(Chars[name], Chars[verbosityLevels[i][1]])}
         IN  IF hit = {} THEN TRUE
             ELSE LET effectiveLevel ==
                          getLevel(computeVerbosityRanges(verbosityLevels[Min(hit)][2]),
                                   moduleVerbosity[1])
                  IN  effectiveLevel = None \/ levelno >= effectiveLevel[1]

\* logging.Handler.handle: the handler emits the record iff its filters pass
handlerFilter(h, name, levelno) ==
    IF hfilter[h] = None THEN TRUE ELSE filter(hfilter[h][1], name, levelno)

\* ------------------------------------------------------------------------
\* SplatLogger (src/splatlog/splat_logger.py)
\* ------------------------------------------------------------------------
RECURSIVE iterHandlers(_)
\* the handlers of the logger and of its ancestors while propagate is true
iterHandlers(logger) ==
    handlers[logger] \cup
        (IF ~propagate[logger] \/ parent[logger] = None THEN {}
         ELSE iterHandlers(parent[logger][1]))

RECURSIVE LoggerGetEffectiveLevel(_)
\* logging.Logger.getEffectiveLevel (super().getEffectiveLevel()): the first
\* non-zero level on the parent chain, NOTSET if there is none
LoggerGetEffectiveLevel(logger) ==
    IF level[logger] # NOTSET THEN level[logger]
    ELSE IF parent[logger] = None THEN NOTSET
    ELSE LoggerGetEffectiveLevel(parent[logger][1])

getPriorityHandlerLevel(logger) ==
    LET lvls == {hlevel[h] : h \in {x \in iterHandlers(logger) :
                                       isPriorityHandler(x) /\ hlevel[x] # NOTSET}}
    IN  IF lvls = {} THEN NOTSET ELSE Min(lvls)

\* mutant: the minimum of the two levels also when one of them is NOTSET
getEffectiveLevel_AlwaysMin(logger) ==
    Min({LoggerGetEffectiveLevel(logger), getPriorityHandlerLevel(logger)})

getEffectiveLevel(logger) ==
    LET logger_level == LoggerGetEffectiveLevel(logger)
        priorityHandlerLevel == getPriorityHandlerLevel(logger)
    IN  IF logger_level # 0 /\ priorityHandlerLevel # 0
        THEN Min({logger_level, priorityHandlerLevel})
        ELSE Max({logger_level, priorityHandlerLevel})

\* mutant: a plain handler is held to the priority-aware level of the logger
getEffectiveHandlerLevel_PriorityAware(logger, handler) ==
    IF isPriorityHandler(handler) THEN hlevel[handler]
    ELSE Max({getEffectiveLevel(logger), hlevel[handler]})

getEffectiveHandlerLevel(logger, handler) ==
    IF isPriorityHandler(handler) THEN hlevel[handler]
    ELSE Max({LoggerGetEffectiveLevel(logger), hlevel[handler]})

\* logging.Manager._clear_cache: every logger's cache is emptied
clearedCache == [l \in Loggers |-> {}]

\* logging.Logger.isEnabledFor: the cached answer if there is one, else
\* levelno >= getEffectiveLevel() (logging.disable is left at 0 and is
\* above no record level used here)
isEnabledFor(logger, levelno) ==
    IF \E b \in BOOLEAN : <<levelno, b>> \in cache[logger]
    THEN <<levelno, TRUE>> \in cache[logger]
    ELSE levelno >= getEffectiveLevel(logger)

\* mutant: logging.Logger.callHandlers, which looks at handler.level alone
called_HandlerLevelOnly(logger, levelno) ==
    {h \in iterHandlers(logger) : levelno >= hlevel[h]}

\* the handlers callHandlers hands the record to
called(logger, levelno) ==
    {h \in iterHandlers(logger) : levelno >= getEffectiveHandlerLevel(logger, h)}

\* the exceptions an emit lets through: RecursionError is re-raised, and
\* KeyboardInterrupt and SystemExit are no subclasses of Exception
FatalErrors == {"RecursionError", "KeyboardInterrupt", "SystemExit"}

\* what the render / encode step of a handler raises: nothing, an ordinary
\* exception, or one of the above
Failures == {"", "Exception"} \cup FatalErrors

\* mutant: emit without the try block, every exception goes to the caller
emit_NoTry(h) ==
    IF emitRaises[h] = "" THEN "ok" ELSE emitRaises[h]

\* RichHandler.emit (and logging.StreamHandler.emit, which has the same try
\* block): "ok", "handleError" when an ordinary exception was caught and
\* handed to self.handleError(record), else the exception that is raised
emit(h) ==
    IF emitRaises[h] = "" THEN "ok"
    ELSE IF emitRaises[h] \in FatalErrors THEN emitRaises[h]
    ELSE "handleError"

\* mutant: the last-resort handler is handed the record whatever its level
toLastResort_AnyLevel(found, levelno) ==
    ~found /\ lastResort # None

\* callHandlers, lines 287-290: the record goes to logging.lastResort
toLastResort(found, levelno) ==
    ~found /\ lastResort # None /\ levelno >= lastResort[1]

\* mutant: the notice is written whether or not it was written before
warns_EveryTime(found) ==
    ~found /\ lastResort = None /\ raiseExceptions

\* callHandlers, lines 287-299: "No handlers could be found" is written
warns(found) ==
    ~found /\ lastResort = None /\ raiseExceptions /\ ~emittedNoHandlerWarning

\* logger.log(levelno, msg): isEnabledFor, then _log -> handle -> callHandlers.
\* The handlers whose emit is called are those callHandlers hands the record
\* to and whose filters pass.  When the emit of one of them raises one of
\* FatalErrors the loop ends there: f is that handler and before the
\* handlers that came earlier in the lists.
Log(logger, levelno) ==
    LET is_enabled == isEnabledFor(logger, levelno)
        found      == iterHandlers(logger) # {}
        handled    == IF is_enabled
                      THEN {h \in called(logger, levelno) :
                              handlerFilter(h, logger, levelno)}
                      ELSE {}
        fatal      == {h \in handled : emit(h) \notin {"ok", "handleError"}}
    IN  \E f \in (IF fatal = {} THEN {""} ELSE fatal),
           before \in (IF fatal = {} THEN {handled} ELSE SUBSET (handled \ fatal)) :
          LET returns == f = ""
              toLast  == is_enabled /\ returns /\ toLastResort(found, levelno)
              warn    == is_enabled /\ returns /\ warns(found)
              emitted == IF returns THEN handled ELSE before \cup {f}
          IN  /\ cache' = [cache EXCEPT ![logger] = @ \cup
                              (IF \E b \in BOOLEAN : <<levelno, b>> \in @ THEN {}
                               ELSE {<<levelno, is_enabled>>})]
              /\ emittedNoHandlerWarning' = (emittedNoHandlerWarning \/ warn)
              /\ last' = [NoCall EXCEPT
                            !.op = "log", !.logger = logger, !.arg = Some(levelno),
                            !.out = IF returns THEN "ok" ELSE emit(f),
                            !.enabled = is_enabled,
                            !.delivered = emitted,
                            !.failed = {h \in emitted : emit(h) = "handleError"},
                            !.lastResort = toLast, !.warned = warn]
              /\ UNCHANGED <<level, propagate, handlers, hlevel, hmanager>>
              /\ UNCHANGED managerVars
              /\ UNCHANGED filterVars
              /\ UNCHANGED valueVars
              /\ UNCHANGED loggingVars
              /\ UNCHANGED threadVars
              /\ UNCHANGED slot

\* logging.Logger.setLevel
SetLevel(logger, lv) ==
    /\ level' = [level EXCEPT ![logger] = lv]
    /\ cache' = clearedCache
    /\ last' = [NoCall EXCEPT !.op = "Logger.setLevel", !.logger = logger,
                              !.arg = Some(lv), !.out = "ok"]
    /\ UNCHANGED <<propagate, handlers, hlevel, hmanager, emittedNoHandlerWarning>>
    /\ UNCHANGED managerVars
    /\ UNCHANGED filterVars
    /\ UNCHANGED valueVars
    /\ UNCHANGED loggingVars
    /\ UNCHANGED threadVars
    /\ UNCHANGED slot

\* The handler bookkeeping the slot descriptors work on, as one value:
\* [handlers, slot, hmanager, cache]
Attachments == [handlers |-> handlers, slot |-> slot, hmanager |-> hmanager,
                cache |-> cache]

\* the loggers SplatManager._iterLoggersForRole("*") yields
managedLoggers == {l \in SplatLoggers : \E r \in RoleNames : l \in loggersByRole[r]}

\* SplatLogger.addHandler on the bookkeeping st
Logger_addHandler(st, logger, hdlr) ==
    [st EXCEPT !.handlers[logger] = @ \cup {hdlr},
               !.hmanager = IF isPriorityHandler(hdlr)
                            THEN [@ EXCEPT ![hdlr] = TRUE] ELSE @,
               !.cache = IF isPriorityHandler(hdlr) THEN clearedCache ELSE @]

RECURSIVE Logger_removeHandler(_, _, _)
RECURSIVE Manager_removeHandler(_, _)
RECURSIVE descriptor_delete(_, _, _)
RECURSIVE RemoveFromLoggers(_, _, _)

\* owner.removeHandler(hdlr) as the descriptor calls it
owner_removeHandler(st, owner, hdlr) ==
    IF owner = Manager THEN Manager_removeHandler(st, hdlr)
    ELSE Logger_removeHandler(st, owner, hdlr)

\* HandlerDescriptor.__delete__
descriptor_delete(st, owner, name) ==
    LET current_handler == st.slot[owner][name]
    IN  IF current_handler # None
        THEN owner_removeHandler([st EXCEPT !.slot[owner][name] = None],
                                 owner, current_handler[1])
        ELSE st

\* SplatLogger.removeHandler on the bookkeeping st: the handler leaves the
\* list, and a slot of the logger that holds it is deleted
Logger_removeHandler(st, logger, hdlr) ==
    LET s1 == [st EXCEPT !.handlers[logger] = @ \ {hdlr},
                         !.cache = IF isPriorityHandler(hdlr)
                                   THEN clearedCache ELSE @]
        s2 == IF s1.slot[logger].console = Some(hdlr)
              THEN descriptor_delete(s1, logger, "console") ELSE s1
    IN  IF s2.slot[logger].file = Some(hdlr)
        THEN descriptor_delete(s2, logger, "file") ELSE s2

\* for logger in self._iterLoggersForRole(role_name): logger.removeHandler(handler)
RemoveFromLoggers(st, S, hdlr) ==
    IF S = {} THEN st
    ELSE LET l == CHOOSE x \in S : TRUE
         IN  RemoveFromLoggers(Logger_removeHandler(st, l, hdlr), S \ {l}, hdlr)

\* SplatManager.removeHandler(handler), role_name the wildcard
Manager_removeHandler(st, hdlr) ==
    IF st.slot[Manager].console = Some(hdlr)
    THEN descriptor_delete(st, Manager, "console")
    ELSE IF st.slot[Manager].file = Some(hdlr)
    THEN descriptor_delete(st, Manager, "file")
    ELSE RemoveFromLoggers(st, managedLoggers, hdlr)

RECURSIVE AddToLoggers(_, _, _)
\* for logger in self._iterLoggersForRole(role_name): logger.addHandler(handler)
AddToLoggers(st, S, hdlr) ==
    IF S = {} THEN st
    ELSE LET l == CHOOSE x \in S : TRUE
         IN  AddToLoggers(Logger_addHandler(st, l, hdlr), S \ {l}, hdlr)

\* SplatManager.addHandler(handler), role_name the wildcard
Manager_addHandler(st, hdlr) == AddToLoggers(st, managedLoggers, hdlr)

\* owner.addHandler(handler) as the descriptor calls it
owner_addHandler(st, owner, hdlr) ==
    IF owner = Manager THEN Manager_addHandler(st, hdlr)
    ELSE Logger_addHandler(st, owner, hdlr)

\* HandlerDescriptor.__set__ with the cast value `handler`, an optional
\* handler: addHandler is called with it also when it is None
descriptor_set(st, owner, name, handler) ==
    LET current_handler == st.slot[owner][name]
    IN  IF current_handler # handler
        THEN LET s1 == [st EXCEPT !.slot[owner][name] = handler]
                 s2 == IF current_handler # None
                       THEN owner_removeHandler(s1, owner, current_handler[1])
                       ELSE s1
             IN  owner_addHandler(s2, owner,
                                  IF handler = None THEN NoneHandler ELSE handler[1])
        ELSE st

\* the bookkeeping st becomes the state
Attach(st) ==
    /\ handlers' = st.handlers
    /\ slot' = st.slot
    /\ hmanager' = st.hmanager
    /\ cache' = st.cache

\* SplatLogger.addHandler
addHandler(logger, hdlr) ==
    /\ Attach(Logger_addHandler(Attachments, logger, hdlr))
    /\ last' = [NoCall EXCEPT !.op = "addHandler", !.logger = logger,
                              !.handler = hdlr, !.cached = cache,
                              !.out = "ok"]
    /\ UNCHANGED <<level, propagate, hlevel, emittedNoHandlerWarning>>
    /\ UNCHANGED managerVars
    /\ UNCHANGED filterVars
    /\ UNCHANGED valueVars
    /\ UNCHANGED loggingVars
    /\ UNCHANGED threadVars

\* SplatLogger.removeHandler
removeHandler(logger, hdlr) ==
    /\ Attach(Logger_removeHandler(Attachments, logger, hdlr))
    /\ last' = [NoCall EXCEPT !.op = "removeHandler", !.logger = logger,
                              !.handler = hdlr, !.cached = cache,
                              !.out = "ok"]
    /\ UNCHANGED <<level, propagate, hlevel, emittedNoHandlerWarning>>
    /\ UNCHANGED managerVars
    /\ UNCHANGED filterVars
    /\ UNCHANGED valueVars
    /\ UNCHANGED loggingVars
    /\ UNCHANGED threadVars

\* owner.console_handler = value / owner.file_handler = value, with value
\* None or a handler (cast returns both as they are)
SlotSet(owner, name, handler) ==
    /\ Attach(descriptor_set(Attachments, owner, name, handler))
    /\ last' = [NoCall EXCEPT !.op = "slot.set", !.owner = owner, !.slot = name,
                              !.arg = handler, !.out = "ok"]
    /\ UNCHANGED <<level, propagate, hlevel, emittedNoHandlerWarning>>
    /\ UNCHANGED managerVars
    /\ UNCHANGED filterVars
    /\ UNCHANGED valueVars
    /\ UNCHANGED loggingVars
    /\ UNCHANGED threadVars

\* del owner.console_handler / del owner.file_handler
SlotDelete(owner, name) ==
    /\ Attach(descriptor_delete(Attachments, owner, name))
    /\ last' = [NoCall EXCEPT !.op = "slot.delete", !.owner = owner,
                              !.slot = name, !.out = "ok"]
    /\ UNCHANGED <<level, propagate, hlevel, emittedNoHandlerWarning>>
    /\ UNCHANGED managerVars
    /\ UNCHANGED filterVars
    /\ UNCHANGED valueVars
    /\ UNCHANGED loggingVars
    /\ UNCHANGED threadVars

\* mutant: logging.Handler.setLevel without the override, the cache is kept
HandlerSetLevel_NoClear(h, lv) ==
    /\ hlevel' = [hlevel EXCEPT ![h] = lv]
    /\ UNCHANGED cache
    /\ last' = [NoCall EXCEPT !.op = "Handler.setLevel", !.handler = h,
                              !.arg = Some(lv), !.cached = cache,
                              !.out = "ok"]
    /\ UNCHANGED <<level, propagate, handlers, hmanager, emittedNoHandlerWarning>>
    /\ UNCHANGED managerVars
    /\ UNCHANGED filterVars
    /\ UNCHANGED valueVars
    /\ UNCHANGED loggingVars
    /\ UNCHANGED threadVars
    /\ UNCHANGED slot

\* logging.Handler.setLevel, overridden by PriorityHandler.setLevel
HandlerSetLevel(h, lv) ==
    /\ hlevel' = [hlevel EXCEPT ![h] = lv]
    /\ IF isPriorityHandler(h) /\ hmanager[h]
       THEN cache' = clearedCache
       ELSE UNCHANGED cache
    /\ last' = [NoCall EXCEPT !.op = "Handler.setLevel", !.handler = h,
                              !.arg = Some(lv), !.cached = cache,
                              !.out = "ok"]
    /\ UNCHANGED <<level, propagate, handlers, hmanager, emittedNoHandlerWarning>>
    /\ UNCHANGED managerVars
    /\ UNCHANGED filterVars
    /\ UNCHANGED valueVars
    /\ UNCHANGED loggingVars
    /\ UNCHANGED threadVars
    /\ UNCHANGED slot

\* SplatLogger.getEffectiveLevel() called by the application
CallGetEffectiveLevel(logger) ==
    /\ last' = [NoCall EXCEPT !.op = "getEffectiveLevel", !.logger = logger,
                              !.res = Some(getEffectiveLevel(logger)), !.out = "ok"]
    /\ UNCHANGED <<level, propagate, handlers, cache, hlevel, hmanager,
                   emittedNoHandlerWarning>>
    /\ UNCHANGED managerVars
    /\ UNCHANGED filterVars
    /\ UNCHANGED valueVars
    /\ UNCHANGED loggingVars
    /\ UNCHANGED threadVars
    /\ UNCHANGED slot

\* SplatLogger.getEffectiveHandlerLevel(handler) called by the application
CallGetEffectiveHandlerLevel(logger, handler) ==
    /\ last' = [NoCall EXCEPT !.op = "getEffectiveHandlerLevel", !.logger = logger,
                              !.handler = handler,
                              !.res = Some(getEffectiveHandlerLevel(logger, handler)),
                              !.out = "ok"]
    /\ UNCHANGED <<level, propagate, handlers, cache, hlevel, hmanager,
                   emittedNoHandlerWarning>>
    /\ UNCHANGED managerVars
    /\ UNCHANGED filterVars
    /\ UNCHANGED valueVars
    /\ UNCHANGED loggingVars
    /\ UNCHANGED threadVars
    /\ UNCHANGED slot

\* VerbosityLevelsFilter.setOn(handler, verbosityLevels)
setOn(h, verbosityLevels) ==
    /\ hfilter' = [hfilter EXCEPT ![h] = verbosityLevels]
    /\ last' = [NoCall EXCEPT !.op = "setOn", !.handler = h, !.out = "ok"]
    /\ UNCHANGED moduleVerbosity
    /\ UNCHANGED valueVars
    /\ UNCHANGED loggingVars
    /\ UNCHANGED threadVars
    /\ UNCHANGED slot
    /\ UNCHANGED <<level, propagate, handlers, cache, hlevel, hmanager,
                   emittedNoHandlerWarning>>
    /\ UNCHANGED managerVars

\* ------------------------------------------------------------------------
\* SplatManager (src/splatlog/splat_manager.py)
\* ------------------------------------------------------------------------
\* SplatManager.getRole(name, None)
getRole(name) == roles[name]

\* the loggers a verbosity change gives a new level: the members of every
\* role name whose role is in the registry
RoleOfMember(logger) ==
    {r \in RoleNames : logger \in loggersByRole[r] /\ getRole(r) # None}

\* for role_name, loggers in self._loggersByRole.items(): ... setLevel(level)
\* with levelOf[r] the level computed for the role registered under r
ApplyToMembers(levelOf) ==
    /\ level' = [l \in Loggers |->
                    IF l \in SplatLoggers /\ RoleOfMember(l) # {}
                    THEN levelOf[CHOOSE r \in RoleOfMember(l) : TRUE]
                    ELSE level[l]]
    /\ IF \E l \in SplatLoggers : RoleOfMember(l) # {}
       THEN cache' = clearedCache
       ELSE UNCHANGED cache

\* every variable but the call record is left as it is
Unchanged ==
    /\ UNCHANGED <<level, propagate, handlers, cache, hlevel, hmanager,
                   emittedNoHandlerWarning>>
    /\ UNCHANGED managerVars
    /\ UNCHANGED filterVars
    /\ UNCHANGED valueVars
    /\ UNCHANGED loggingVars
    /\ UNCHANGED threadVars
    /\ UNCHANGED slot

\* setVerbosity, lines 100-101: the verbosity is the stored one
setVerbosity_Return(v) ==
    /\ last' = [NoCall EXCEPT !.op = "setVerbosity", !.arg = Some(v),
                              !.out = "return"]
    /\ Unchanged

\* setVerbosity, line 103: the verbosity is stored
setVerbosity_Store(v) ==
    /\ verbosity' = Some(v)
    /\ last' = [NoCall EXCEPT !.op = "setVerbosity", !.arg = Some(v), !.out = "ok"]
    /\ UNCHANGED <<propagate, handlers, hlevel, hmanager, emittedNoHandlerWarning>>
    /\ UNCHANGED <<roles, role_name, loggersByRole>>
    /\ UNCHANGED filterVars
    /\ UNCHANGED valueVars
    /\ UNCHANGED loggingVars
    /\ UNCHANGED threadVars
    /\ UNCHANGED slot

\* setVerbosity, lines 105-109: every member of every role gets the role's
\* level for the verbosity
setVerbosity_Rescan(v) ==
    ApplyToMembers([r \in {n \in RoleNames : getRole(n) # None} |->
                        get_level(getRole(r)[1], Some(v))])

\* mutant: the new verbosity is stored and no logger is given its level
setVerbosity_StoreOnly(v) ==
    IF Some(v) = verbosity
    THEN setVerbosity_Return(v)
    ELSE setVerbosity_Store(v) /\ UNCHANGED <<level, cache>>

\* mutant: no short-circuit, the loggers are re-scanned on every call
setVerbosity_NoShortCircuit(v) ==
    setVerbosity_Store(v) /\ setVerbosity_Rescan(v)

\* SplatManager.setVerbosity
setVerbosity(v) ==
    IF Some(v) = verbosity
    THEN setVerbosity_Return(v)
    ELSE setVerbosity_Store(v) /\ setVerbosity_Rescan(v)

\* delVerbosity when no verbosity is set: nothing is done
delVerbosity_Return ==
    /\ last' = [NoCall EXCEPT !.op = "delVerbosity", !.out = "return"]
    /\ Unchanged

\* delVerbosity, line 113
delVerbosity_Unset ==
    /\ verbosity' = None
    /\ last' = [NoCall EXCEPT !.op = "delVerbosity", !.out = "ok"]
    /\ UNCHANGED <<propagate, handlers, hlevel, hmanager, emittedNoHandlerWarning>>
    /\ UNCHANGED <<roles, role_name, loggersByRole>>
    /\ UNCHANGED filterVars
    /\ UNCHANGED valueVars
    /\ UNCHANGED loggingVars
    /\ UNCHANGED threadVars
    /\ UNCHANGED slot

\* delVerbosity, lines 115-119
delVerbosity_Rescan ==
    ApplyToMembers([r \in {n \in RoleNames : getRole(n) # None} |->
                        getRole(r)[1].default_level])

\* mutant: the verbosity is unset and the loggers keep their levels
delVerbosity_UnsetOnly ==
    IF verbosity # None
    THEN delVerbosity_Unset /\ UNCHANGED <<level, cache>>
    ELSE delVerbosity_Return

\* SplatManager.delVerbosity
delVerbosity ==
    IF verbosity # None
    THEN delVerbosity_Unset /\ delVerbosity_Rescan
    ELSE delVerbosity_Return

\* SplatManager.getRoleLevel: an optional level
getRoleLevel(name) ==
    IF verbosity = None THEN None
    ELSE IF getRole(name) = None THEN None
    ELSE Some(get_level(getRole(name)[1], verbosity))

\* `if level := self.getRoleLevel(role_name)`: the level is neither None nor 0
isTruthy(lv) == lv # None /\ lv[1] # 0

\* assignRole, lines 189-190: the logger has this role already
assignRole_Return(logger, role) ==
    /\ last' = [NoCall EXCEPT !.op = "assignRole", !.logger = logger,
                              !.role = role, !.out = "return"]
    /\ Unchanged

\* assignRole, lines 192-198: the logger has another role
assignRole_Raise(logger, role) ==
    /\ last' = [NoCall EXCEPT !.op = "assignRole", !.logger = logger,
                              !.role = role, !.out = "AttributeError"]
    /\ Unchanged

\* assignRole, lines 200-206
assignRole_Assign(logger, role) ==
    /\ role_name' = [role_name EXCEPT ![logger] = Some(role)]
    /\ loggersByRole' = [loggersByRole EXCEPT ![role] = @ \cup {logger}]
    /\ LET lv == getRoleLevel(role)
       IN  IF isTruthy(lv)
           THEN /\ level' = [level EXCEPT ![logger] = lv[1]]
                /\ cache' = clearedCache
           ELSE UNCHANGED <<level, cache>>
    /\ last' = [NoCall EXCEPT !.op = "assignRole", !.logger = logger,
                              !.role = role, !.out = "ok"]
    /\ UNCHANGED <<propagate, handlers, hlevel, hmanager, emittedNoHandlerWarning>>
    /\ UNCHANGED <<verbosity, roles>>
    /\ UNCHANGED filterVars
    /\ UNCHANGED valueVars
    /\ UNCHANGED loggingVars
    /\ UNCHANGED threadVars
    /\ UNCHANGED slot

\* mutant: a logger that has another role is assigned the new one as well
assignRole_NoConflictCheck(logger, role) ==
    IF role_name[logger] = Some(role)
    THEN assignRole_Return(logger, role)
    ELSE assignRole_Assign(logger, role)

\* mutant: no early return for the role the logger already has
assignRole_NoSameRoleReturn(logger, role) ==
    IF role_name[logger] # None
    THEN assignRole_Raise(logger, role)
    ELSE assignRole_Assign(logger, role)

\* SplatManager.assignRole
assignRole(logger, role) ==
    IF role_name[logger] = Some(role)
    THEN assignRole_Return(logger, role)
    ELSE IF role_name[logger] # None
    THEN assignRole_Raise(logger, role)
    ELSE assignRole_Assign(logger, role)

\* SplatManager.clearRole
clearRole(logger) ==
    LET current_role_name == role_name[logger]
    IN  IF current_role_name # None
        THEN /\ loggersByRole' = [loggersByRole EXCEPT
                                    ![current_role_name[1]] = @ \ {logger}]
             /\ role_name' = [role_name EXCEPT ![logger] = None]
             /\ LET lv == getRoleLevel(current_role_name[1])
                IN  IF isTruthy(lv)
                    THEN /\ level' = [level EXCEPT ![logger] = lv[1]]
                         /\ cache' = clearedCache
                    ELSE UNCHANGED <<level, cache>>
             /\ last' = [NoCall EXCEPT !.op = "clearRole", !.logger = logger,
                                       !.role = current_role_name[1], !.out = "ok"]
             /\ UNCHANGED <<propagate, handlers, hlevel, hmanager,
                            emittedNoHandlerWarning>>
             /\ UNCHANGED <<verbosity, roles>>
             /\ UNCHANGED filterVars
             /\ UNCHANGED valueVars
             /\ UNCHANGED loggingVars
             /\ UNCHANGED threadVars
             /\ UNCHANGED slot
        ELSE /\ last' = [NoCall EXCEPT !.op = "clearRole", !.logger = logger,
                                       !.out = "return"]
             /\ UNCHANGED <<level, propagate, handlers, cache, hlevel, hmanager,
                            emittedNoHandlerWarning>>
             /\ UNCHANGED managerVars
             /\ UNCHANGED filterVars
             /\ UNCHANGED valueVars
             /\ UNCHANGED loggingVars
             /\ UNCHANGED threadVars
             /\ UNCHANGED slot

\* SplatManager.createRole
createRole(name, verbosity_levels, default_level) ==
    /\ IF getRole(name) # None
       THEN /\ last' = [NoCall EXCEPT !.op = "createRole", !.role = name,
                                      !.out = "KeyError"]
            /\ UNCHANGED roles
       ELSE /\ roles' = [roles EXCEPT
                           ![name] = Some(Role(verbosity_levels, default_level, FALSE))]
            /\ last' = [NoCall EXCEPT !.op = "createRole", !.role = name,
                                      !.out = "ok"]
    /\ UNCHANGED <<level, propagate, handlers, cache, hlevel, hmanager,
                   emittedNoHandlerWarning>>
    /\ UNCHANGED <<verbosity, role_name, loggersByRole>>
    /\ UNCHANGED filterVars
    /\ UNCHANGED valueVars
    /\ UNCHANGED loggingVars
    /\ UNCHANGED threadVars
    /\ UNCHANGED slot

\* SplatManager.deleteRole
deleteRole(name) ==
    /\ IF getRole(name) = None
       THEN /\ last' = [NoCall EXCEPT !.op = "deleteRole", !.role = name,
                                      !.out = "KeyError"]
            /\ UNCHANGED roles
       ELSE /\ roles' = [roles EXCEPT ![name] = None]
            /\ last' = [NoCall EXCEPT !.op = "deleteRole", !.role = name,
                                      !.out = "ok"]
    /\ UNCHANGED <<level, propagate, handlers, cache, hlevel, hmanager,
                   emittedNoHandlerWarning>>
    /\ UNCHANGED <<verbosity, role_name, loggersByRole>>
    /\ UNCHANGED filterVars
    /\ UNCHANGED valueVars
    /\ UNCHANGED loggingVars
    /\ UNCHANGED threadVars
    /\ UNCHANGED slot

\* ------------------------------------------------------------------------
\* Threads: the manager's calls, one statement (or group of statements) of
\* the source at a time.  Positions are the source lines of
\* splat_manager.py; "idle" is outside every call.
\* ------------------------------------------------------------------------
Threads == {"t1", "t2"}

\* a thread outside every call; op, logger, role, arg and out keep the last
\* finished call.  fresh and during are history: whether the logger had no
\* role when the call began, and the threads that were inside a call at
\* some moment of this call.
Idle == [pc |-> "idle", op |-> "none", logger |-> "", role |-> "", slot |-> "",
         arg |-> None, lv |-> None, out |-> "", handler |-> None,
         current_handler |-> None, seenSlot |-> None, seenHandlers |-> {},
         fresh |-> FALSE, during |-> {}]

\* threading.RLock(), not held
NoLock == [holder |-> "", depth |-> 0]

\* the threads inside a call
running == {u \in Threads : threads[u].pc # "idle"}

\* thread t enters a call with the frame `frame`; the threads inside a call
\* at this moment and t have seen each other
Enter(t, frame) ==
    /\ threads[t].pc = "idle"
    /\ threads' = [u \in Threads |->
                     IF u = t THEN [frame EXCEPT !.during = running \ {t}]
                     ELSE IF u \in running
                     THEN [threads[u] EXCEPT !.during = @ \cup {t}]
                     ELSE threads[u]]

\* thread t goes to position pc
Goto(t, pc) == threads' = [threads EXCEPT ![t].pc = pc]

\* thread t leaves its call with the outcome out
Leave(t, out) == threads' = [threads EXCEPT ![t].pc = "idle", ![t].out = out]

\* what a step leaves alone besides the manager's and the loggers' state
StepLeaves ==
    /\ UNCHANGED <<propagate, handlers, hlevel, hmanager, emittedNoHandlerWarning>>
    /\ UNCHANGED filterVars
    /\ UNCHANGED valueVars
    /\ UNCHANGED loggingVars
    /\ UNCHANGED <<slot, handler_lock, last>>

\* a thread calls manager.assignRole(logger, role); line 187
assignRole_call(t, logger, role) ==
    /\ Enter(t, [Idle EXCEPT !.pc = "189", !.op = "assignRole",
                             !.logger = logger, !.role = role,
                             !.fresh = (role_name[logger] = None)])
    /\ UNCHANGED <<level, cache>>
    /\ UNCHANGED managerVars
    /\ StepLeaves

\* lines 189-190: if logger._role_name == role_name: return logger
assignRole_189(t) ==
    /\ threads[t].op = "assignRole" /\ threads[t].pc = "189"
    /\ IF role_name[threads[t].logger] = Some(threads[t].role)
       THEN Leave(t, "return")
       ELSE Goto(t, "192")
    /\ UNCHANGED <<level, cache>>
    /\ UNCHANGED managerVars
    /\ StepLeaves

\* lines 192-198: if logger._role_name is not None: raise AttributeError
assignRole_192(t) ==
    /\ threads[t].op = "assignRole" /\ threads[t].pc = "192"
    /\ IF role_name[threads[t].logger] # None
       THEN Leave(t, "AttributeError")
       ELSE Goto(t, "200")
    /\ UNCHANGED <<level, cache>>
    /\ UNCHANGED managerVars
    /\ StepLeaves

\* line 200: logger._role_name = role_name
assignRole_200(t) ==
    /\ threads[t].op = "assignRole" /\ threads[t].pc = "200"
    /\ role_name' = [role_name EXCEPT ![threads[t].logger] = Some(threads[t].role)]
    /\ Goto(t, "201")
    /\ UNCHANGED <<level, cache>>
    /\ UNCHANGED <<verbosity, roles, loggersByRole>>
    /\ StepLeaves

\* line 201: self._loggersByRole[role_name].add(logger)
assignRole_201(t) ==
    /\ threads[t].op = "assignRole" /\ threads[t].pc = "201"
    /\ loggersByRole' = [loggersByRole EXCEPT
                           ![threads[t].role] = @ \cup {threads[t].logger}]
    /\ Goto(t, "203")
    /\ UNCHANGED <<level, cache>>
    /\ UNCHANGED <<verbosity, roles, role_name>>
    /\ StepLeaves

\* line 203: if level := self.getRoleLevel(role_name)
assignRole_203(t) ==
    /\ threads[t].op = "assignRole" /\ threads[t].pc = "203"
    /\ LET lv == getRoleLevel(threads[t].role)
       IN  IF isTruthy(lv)
           THEN threads' = [threads EXCEPT ![t].pc = "204", ![t].lv = lv]
           ELSE Leave(t, "ok")
    /\ UNCHANGED <<level, cache>>
    /\ UNCHANGED managerVars
    /\ StepLeaves

\* lines 204-206: logger.setLevel(level); return logger
assignRole_204(t) ==
    /\ threads[t].op = "assignRole" /\ threads[t].pc = "204"
    /\ level' = [level EXCEPT ![threads[t].logger] = threads[t].lv[1]]
    /\ cache' = clearedCache
    /\ Leave(t, "ok")
    /\ UNCHANGED managerVars
    /\ StepLeaves

\* a thread calls manager.setVerbosity(v)
setVerbosity_call(t, v) ==
    /\ Enter(t, [Idle EXCEPT !.pc = "100", !.op = "setVerbosity",
                             !.arg = Some(v)])
    /\ UNCHANGED <<level, cache>>
    /\ UNCHANGED managerVars
    /\ StepLeaves

\* lines 100-101: if verbosity == self._verbosity: return
setVerbosity_100(t) ==
    /\ threads[t].op = "setVerbosity" /\ threads[t].pc = "100"
    /\ IF threads[t].arg = verbosity
       THEN Leave(t, "return")
       ELSE Goto(t, "103")
    /\ UNCHANGED <<level, cache>>
    /\ UNCHANGED managerVars
    /\ StepLeaves

\* line 103: self._verbosity = verbosity
setVerbosity_103(t) ==
    /\ threads[t].op = "setVerbosity" /\ threads[t].pc = "103"
    /\ verbosity' = threads[t].arg
    /\ Goto(t, "105")
    /\ UNCHANGED <<level, cache>>
    /\ UNCHANGED <<roles, role_name, loggersByRole>>
    /\ StepLeaves

\* lines 105-109: the loop over the member sets, with the argument of the
\* call (not the stored verbosity) as the verbosity
setVerbosity_105(t) ==
    /\ threads[t].op = "setVerbosity" /\ threads[t].pc = "105"
    /\ setVerbosity_Rescan(threads[t].arg[1])
    /\ Leave(t, "ok")
    /\ UNCHANGED managerVars
    /\ StepLeaves

\* ------------------------------------------------------------------------
\* Threads: the slot descriptors, one statement of handler_descriptor.py at
\* a time, and the readers of a slot and of the handler list
\* ------------------------------------------------------------------------
\* with owner.handler_lock: the RLock is free or held by t
Acquire(t, owner) ==
    /\ handler_lock[owner].holder \in {"", t}
    /\ handler_lock' = [handler_lock EXCEPT
                          ![owner] = [holder |-> t, depth |-> @.depth + 1]]

\* leaving the with block
Release(t, owner) ==
    handler_lock' = [handler_lock EXCEPT
                       ![owner] = IF @.depth = 1 THEN NoLock
                                  ELSE [holder |-> t, depth |-> @.depth - 1]]

\* what a statement of a descriptor or of a reader leaves alone
SlotStepLeaves ==
    /\ UNCHANGED <<level, propagate, hlevel, emittedNoHandlerWarning>>
    /\ UNCHANGED managerVars
    /\ UNCHANGED filterVars
    /\ UNCHANGED valueVars
    /\ UNCHANGED loggingVars
    /\ UNCHANGED last

\* owner.console_handler = value: line 65, handler = self.cast(logger, value)
set_call(t, owner, name, handler) ==
    /\ Enter(t, [Idle EXCEPT !.pc = "67", !.op = "slot.set", !.logger = owner,
                             !.slot = name, !.handler = handler])
    /\ UNCHANGED <<handlers, slot, hmanager, cache, handler_lock>>
    /\ SlotStepLeaves

\* line 67 (sync, lines 31-32): the lock is taken and the slot read
set_67(t) ==
    /\ threads[t].op = "slot.set" /\ threads[t].pc = "67"
    /\ Acquire(t, threads[t].logger)
    /\ threads' = [threads EXCEPT
                     ![t].pc = "68",
                     ![t].current_handler = slot[threads[t].logger][threads[t].slot]]
    /\ UNCHANGED <<handlers, slot, hmanager, cache>>
    /\ SlotStepLeaves

\* lines 68-69: if current_handler is not handler: setattr(...)
set_68(t) ==
    /\ threads[t].op = "slot.set" /\ threads[t].pc = "68"
    /\ IF threads[t].current_handler # threads[t].handler
       THEN /\ slot' = [slot EXCEPT ![threads[t].logger][threads[t].slot] =
                                       threads[t].handler]
            /\ Goto(t, "70")
            /\ UNCHANGED handler_lock
       ELSE /\ Release(t, threads[t].logger)
            /\ Leave(t, "ok")
            /\ UNCHANGED slot
    /\ UNCHANGED <<handlers, hmanager, cache>>
    /\ SlotStepLeaves

\* lines 70-71: if current_handler is not None: logger.removeHandler(...)
set_70(t) ==
    /\ threads[t].op = "slot.set" /\ threads[t].pc = "70"
    /\ IF threads[t].current_handler # None
       THEN Attach(owner_removeHandler(Attachments, threads[t].logger,
                                       threads[t].current_handler[1]))
       ELSE UNCHANGED <<handlers, slot, hmanager, cache>>
    /\ Goto(t, "72")
    /\ UNCHANGED handler_lock
    /\ SlotStepLeaves

\* line 72: logger.addHandler(handler), and the with block is left
set_72(t) ==
    /\ threads[t].op = "slot.set" /\ threads[t].pc = "72"
    /\ Attach(owner_addHandler(Attachments, threads[t].logger,
                               IF threads[t].handler = None THEN NoneHandler
                               ELSE threads[t].handler[1]))
    /\ Release(t, threads[t].logger)
    /\ Leave(t, "ok")
    /\ SlotStepLeaves

\* del owner.console_handler
delete_call(t, owner, name) ==
    /\ Enter(t, [Idle EXCEPT !.pc = "75", !.op = "slot.delete",
                             !.logger = owner, !.slot = name])
    /\ UNCHANGED <<handlers, slot, hmanager, cache, handler_lock>>
    /\ SlotStepLeaves

\* line 75 (sync, lines 31-32)
delete_75(t) ==
    /\ threads[t].op = "slot.delete" /\ threads[t].pc = "75"
    /\ Acquire(t, threads[t].logger)
    /\ threads' = [threads EXCEPT
                     ![t].pc = "76",
                     ![t].current_handler = slot[threads[t].logger][threads[t].slot]]
    /\ UNCHANGED <<handlers, slot, hmanager, cache>>
    /\ SlotStepLeaves

\* lines 76-77: if current_handler is not None: setattr(..., None)
delete_76(t) ==
    /\ threads[t].op = "slot.delete" /\ threads[t].pc = "76"
    /\ IF threads[t].current_handler # None
       THEN /\ slot' = [slot EXCEPT ![threads[t].logger][threads[t].slot] = None]
            /\ Goto(t, "78")
            /\ UNCHANGED handler_lock
       ELSE /\ Release(t, threads[t].logger)
            /\ Leave(t, "ok")
            /\ UNCHANGED slot
    /\ UNCHANGED <<handlers, hmanager, cache>>
    /\ SlotStepLeaves

\* line 78: logger.removeHandler(current_handler), and the with block is left
delete_78(t) ==
    /\ threads[t].op = "slot.delete" /\ threads[t].pc = "78"
    /\ Attach(owner_removeHandler(Attachments, threads[t].logger,
                                  threads[t].current_handler[1]))
    /\ Release(t, threads[t].logger)
    /\ Leave(t, "ok")
    /\ SlotStepLeaves

\* a thread evaluates owner.console_handler and then owner.handlers
read_call(t, owner, name) ==
    /\ Enter(t, [Idle EXCEPT !.pc = "62", !.op = "read", !.logger = owner,
                             !.slot = name])
    /\ UNCHANGED <<handlers, slot, hmanager, cache, handler_lock>>
    /\ SlotStepLeaves

\* __get__, line 62: getattr(logger, self._attr_name, None), no lock taken
read_62(t) ==
    /\ threads[t].op = "read" /\ threads[t].pc = "62"
    /\ threads' = [threads EXCEPT
                     ![t].pc = "handlers",
                     ![t].seenSlot = slot[threads[t].logger][threads[t].slot]]
    /\ UNCHANGED <<handlers, slot, hmanager, cache, handler_lock>>
    /\ SlotStepLeaves

\* logger.handlers is read
read_handlers(t) ==
    /\ threads[t].op = "read" /\ threads[t].pc = "handlers"
    /\ threads' = [threads EXCEPT
                     ![t].pc = "idle", ![t].out = "ok",
                     ![t].seenHandlers = handlers[threads[t].logger]]
    /\ UNCHANGED <<handlers, slot, hmanager, cache, handler_lock>>
    /\ SlotStepLeaves

\* a thread enters `with descriptor.sync(owner) as current_handler:`
sync_call(t, owner, name) ==
    /\ Enter(t, [Idle EXCEPT !.pc = "31", !.op = "sync", !.logger = owner,
                             !.slot = name])
    /\ UNCHANGED <<handlers, slot, hmanager, cache, handler_lock>>
    /\ SlotStepLeaves

\* sync, lines 31-32: the lock is taken and the slot read
sync_31(t) ==
    /\ threads[t].op = "sync" /\ threads[t].pc = "31"
    /\ Acquire(t, threads[t].logger)
    /\ threads' = [threads EXCEPT
                     ![t].pc = "body",
                     ![t].seenSlot = slot[threads[t].logger][threads[t].slot]]
    /\ UNCHANGED <<handlers, slot, hmanager, cache>>
    /\ SlotStepLeaves

\* the body of the with block reads logger.handlers; the block is left
sync_body(t) ==
    /\ threads[t].op = "sync" /\ threads[t].pc = "body"
    /\ threads' = [threads EXCEPT
                     ![t].pc = "idle", ![t].out = "ok",
                     ![t].seenHandlers = handlers[threads[t].logger]]
    /\ Release(t, threads[t].logger)
    /\ UNCHANGED <<handlers, slot, hmanager, cache>>
    /\ SlotStepLeaves

\* ------------------------------------------------------------------------
\* Initial state and specifications
\* ------------------------------------------------------------------------
\* SplatManager(builtin_roles=(APP_ROLE, LIB_ROLE)), fresh loggers and
\* handlers; the root logger is created at WARNING by the logging library.
InitWith(prop) ==
    /\ level = [l \in Loggers |-> IF l = Root THEN WARNING ELSE NOTSET]
    /\ propagate = prop
    /\ handlers = [l \in Loggers |-> {}]
    /\ cache = clearedCache
    /\ hlevel = [h \in Handlers |-> NOTSET]
    /\ hmanager = [h \in Handlers |-> FALSE]
    /\ verbosity = None
    /\ roles = [r \in RoleNames |->
                  IF r = "app" THEN Some(APP_ROLE)
                  ELSE IF r = "lib" THEN Some(LIB_ROLE)
                  ELSE None]
    /\ role_name = [l \in SplatLoggers |-> None]
    /\ loggersByRole = [r \in RoleNames |-> {}]
    /\ emittedNoHandlerWarning = FALSE
    /\ hfilter = [h \in Handlers |-> None]
    /\ moduleVerbosity = None
    /\ slot = [o \in Owners |-> NoSlots]
    /\ resolver = None
    /\ nameToLevel = {}
    /\ lastResort = Some(WARNING)
    /\ raiseExceptions = TRUE
    /\ emitRaises = [h \in Handlers |-> ""]
    /\ threads = [t \in Threads |-> Idle]
    /\ handler_lock = [o \in Owners |-> NoLock]
    /\ last = NoCall

\* every logger propagates, as the logging library creates them
Init == InitWith([l \in Loggers |-> TRUE])

\* the application has set pkg.sub.propagate when it configured the logger,
\* before any handler is attached or any record logged
InitPropagate ==
    \E b \in BOOLEAN : InitWith([l \in Loggers |-> l # "pkg.sub" \/ b])

\* the role table createRole is called with, <<verbosity_levels,
\* default_level>>: given out of order, starting above verbosity 0, and
\* with NOTSET ("inherit from the parent") as the level at verbosity 1
UserRoleTables ==
    { << << <<2, DEBUG>>, <<1, NOTSET>> >>, INFO >> }

\* The role manager: role CRUD, role assignment, verbosity, and level
\* changes made directly on the loggers.
NextRoles ==
    \/ \E l \in SplatLoggers, r \in RoleNames : assignRole(l, r)
    \/ \E l \in SplatLoggers : clearRole(l)
    \/ \E v \in 0..MaxVerbosity : setVerbosity(v)
    \/ delVerbosity
    \/ \E n \in {"x", "app"}, t \in UserRoleTables : createRole(n, t[1], t[2])
    \/ \E n \in {"x", "lib"} : deleteRole(n)
    \/ \E l \in SplatLoggers, lv \in {NOTSET, DEBUG} : SetLevel(l, lv)

SpecRoles == Init /\ [][NextRoles]_vars

\* The role manager's own operations alone: no level is set on a logger
\* from outside the manager.
NextManager ==
    \/ \E l \in SplatLoggers, r \in RoleNames : assignRole(l, r)
    \/ \E l \in SplatLoggers : clearRole(l)
    \/ \E v \in 0..MaxVerbosity : setVerbosity(v)
    \/ delVerbosity
    \/ \E n \in {"x", "app"}, t \in UserRoleTables : createRole(n, t[1], t[2])
    \/ \E n \in {"x", "lib"} : deleteRole(n)

SpecManager == Init /\ [][NextManager]_vars

\* verbosity_state.setVerbosity: asVerbosity(v) accepts 0 <= v < sys.maxsize
\* and raises TypeError otherwise; the module's name -> levels map is left
\* empty, so no logger level is set
moduleSetVerbosity(v) ==
    /\ IF isVerbosity(v)
       THEN /\ moduleVerbosity' = Some(v)
            /\ last' = [NoCall EXCEPT !.op = "verbosity.setVerbosity",
                                      !.arg = Some(v), !.out = "ok"]
       ELSE /\ UNCHANGED moduleVerbosity
            /\ last' = [NoCall EXCEPT !.op = "verbosity.setVerbosity",
                                      !.arg = Some(v), !.out = "TypeError"]
    /\ UNCHANGED hfilter
    /\ UNCHANGED valueVars
    /\ UNCHANGED loggingVars
    /\ UNCHANGED threadVars
    /\ UNCHANGED slot
    /\ UNCHANGED <<level, propagate, handlers, cache, hlevel, hmanager,
                   emittedNoHandlerWarning>>
    /\ UNCHANGED managerVars

\* Effective levels: logger and handler levels are set, handlers are attached
\* and removed, and the application asks for the effective levels.
NextLevels ==
    \/ \E lv \in {NOTSET, WARNING} : SetLevel(Root, lv)
    \/ \E l \in SplatLoggers, lv \in {NOTSET, DEBUG, WARNING} : SetLevel(l, lv)
    \/ \E h \in Handlers, lv \in {NOTSET, DEBUG, INFO} : HandlerSetLevel(h, lv)
    \/ addHandler("pkg.sub", "p1") \/ addHandler("pkg", "p2")
    \/ addHandler("pkg.sub", "r1")
    \/ removeHandler("pkg.sub", "p1") \/ removeHandler("pkg", "p2")
    \/ removeHandler("pkg.sub", "r1")
    \/ \E l \in SplatLoggers : CallGetEffectiveLevel(l)
    \/ \E h \in {"p1", "r1"} : CallGetEffectiveHandlerLevel("pkg.sub", h)

SpecLevels == InitPropagate /\ [][NextLevels]_vars

\* the scope map of Scenario B: {"pkg": ((0, WARNING), (2, DEBUG))}
ScopeMaps == { << <<"pkg", << <<0, WARNING>>, <<2, DEBUG>> >> >> >> }

\* Dispatch: records are logged on pkg.sub; its chain is pkg.sub, pkg, root.
NextDispatch ==
    \/ \E lv \in {DEBUG, INFO} : Log("pkg.sub", lv)
    \/ \E lv \in {NOTSET, WARNING} : SetLevel(Root, lv)
    \/ \E lv \in {NOTSET, DEBUG, WARNING} : SetLevel("pkg.sub", lv)
    \/ \E lv \in {NOTSET, DEBUG, INFO} : HandlerSetLevel("p1", lv)
    \/ \E lv \in {NOTSET, INFO} : HandlerSetLevel("r1", lv)
    \/ \E l \in SplatLoggers : addHandler(l, "p1")
    \/ \E l \in SplatLoggers : removeHandler(l, "p1")
    \/ addHandler("pkg.sub", "r1")
    \/ removeHandler("pkg.sub", "r1")
    \/ \E m \in ScopeMaps : setOn("r1", Some(m))
    \/ setOn("r1", None)
    \/ \E v \in 1..2 : moduleSetVerbosity(v)
    \/ CallGetEffectiveLevel("pkg.sub")
    \/ \E h \in {"p1", "r1"} : CallGetEffectiveHandlerLevel("pkg.sub", h)

SpecDispatch == InitPropagate /\ [][NextDispatch]_vars

\* The enabled-for cache: records are logged on pkg and on pkg.sub, which
\* fills the cache, while the priority handler p1 and the plain handler r1
\* are attached, removed and given other levels.
NextCache ==
    \/ \E l \in SplatLoggers, lv \in {DEBUG, INFO} : Log(l, lv)
    \/ \E lv \in {NOTSET, WARNING} : SetLevel("pkg", lv)
    \/ \E lv \in {NOTSET, DEBUG, INFO} : HandlerSetLevel("p1", lv)
    \/ \E lv \in {NOTSET, INFO} : HandlerSetLevel("r1", lv)
    \/ \E l \in SplatLoggers : addHandler(l, "p1")
    \/ \E l \in SplatLoggers : removeHandler(l, "p1")
    \/ addHandler("pkg.sub", "r1")
    \/ removeHandler("pkg.sub", "r1")

SpecCache == InitPropagate /\ [][NextCache]_vars

\* the values assigned to the slots: None, the priority handler p1 and the
\* plain handler r1
SlotValues == {None, Some("p1"), Some("r1")}

\* Handler slots: the console and file slots of pkg and of the manager are
\* set and deleted, loggers enter and leave the app role, and the slot
\* handlers are removed from pkg with removeHandler.
NextSlots ==
    \/ \E o \in {"pkg", Manager}, n \in SlotNames, h \in SlotValues :
          SlotSet(o, n, h)
    \/ \E o \in {"pkg", Manager}, n \in SlotNames : SlotDelete(o, n)
    \/ \E l \in SplatLoggers : assignRole(l, "app")
    \/ \E l \in SplatLoggers : clearRole(l)
    \/ \E h \in {"p1", "r1"} : removeHandler("pkg", h)

SpecSlots == Init /\ [][NextSlots]_vars

\* verbosity_state.delVerbosity()
moduleDelVerbosity ==
    /\ moduleVerbosity' = None
    /\ last' = [NoCall EXCEPT !.op = "verbosity.delVerbosity", !.out = "ok"]
    /\ UNCHANGED hfilter
    /\ UNCHANGED valueVars
    /\ UNCHANGED loggingVars
    /\ UNCHANGED threadVars
    /\ UNCHANGED slot
    /\ UNCHANGED <<level, propagate, handlers, cache, hlevel, hmanager,
                   emittedNoHandlerWarning>>
    /\ UNCHANGED managerVars

\* handler.filter(record) for a record of logger `name` at `levelno`
CallFilter(h, name, levelno) ==
    /\ last' = [NoCall EXCEPT !.op = "filter", !.handler = h, !.logger = name,
                              !.arg = Some(levelno),
                              !.out = IF handlerFilter(h, name, levelno)
                                      THEN "True" ELSE "False"]
    /\ Unchanged

\* scope maps given to VerbosityLevelsFilter, in the order of their items:
\* none, Scenario B, a scope that is a prefix but no ancestor, a scope and
\* its descendant in both orders, and a scope that starts at verbosity 2
FilterMaps ==
    { <<>>,
      << <<"pkg", << <<0, WARNING>>, <<2, DEBUG>> >> >> >>,
      << <<"pk", << <<0, WARNING>> >> >> >>,
      << <<"pkg", << <<0, WARNING>> >> >>, <<"pkg.sub", << <<0, DEBUG>> >> >> >>,
      << <<"pkg.sub", << <<0, DEBUG>> >> >>, <<"pkg", << <<0, WARNING>> >> >> >>,
      << <<"pkg", << <<2, WARNING>> >> >> >> }

\* The verbosity filter: a filter is put on r1, the module's verbosity is set
\* and unset, and records are handed to the filter.
NextFilter ==
    \/ \E m \in FilterMaps : setOn("r1", Some(m))
    \/ setOn("r1", None)
    \/ \E v \in 0..MaxVerbosity : moduleSetVerbosity(v)
    \/ moduleDelVerbosity
    \/ \E n \in {"pkg", "pkg.sub"}, lv \in {DEBUG, INFO, WARNING} :
          CallFilter("r1", n, lv)

SpecFilter == Init /\ [][NextFilter]_vars

\* VerbosityLevelResolver(levels): asVerbosity rejects a verbosity out of
\* bounds with a TypeError; the levels are integers already
NewResolver(levels) ==
    /\ IF \A i \in DOMAIN levels : isVerbosity(levels[i][1])
       THEN /\ resolver' = Some([_levels |-> levels,
                                 _ranges |-> computeVerbosityRanges(levels)])
            /\ last' = [NoCall EXCEPT !.op = "VerbosityLevelResolver",
                                      !.out = "ok"]
       ELSE /\ UNCHANGED resolver
            /\ last' = [NoCall EXCEPT !.op = "VerbosityLevelResolver",
                                      !.out = "TypeError"]
    /\ UNCHANGED nameToLevel
    /\ UNCHANGED loggingVars
    /\ UNCHANGED threadVars
    /\ UNCHANGED <<level, propagate, handlers, cache, hlevel, hmanager,
                   emittedNoHandlerWarning>>
    /\ UNCHANGED managerVars
    /\ UNCHANGED <<hfilter, moduleVerbosity, slot>>

\* resolver.getLevel(verbosity)
CallGetLevel(v) ==
    /\ resolver # None
    /\ last' = [NoCall EXCEPT !.op = "getLevel", !.arg = Some(v),
                              !.res = getLevel(resolver[1]._ranges, v),
                              !.out = "ok"]
    /\ Unchanged

\* the longest list of pairs a resolver is built from
MaxLen == 3

\* lists of (verbosity, level) pairs with pairwise distinct verbosities, in
\* every order
ResolverTables ==
    {t \in UNION {[1..n -> (0..MaxVerbosity) \X {DEBUG, WARNING}] : n \in 0..MaxLen} :
        \A i, j \in DOMAIN t : i # j => t[i][1] # t[j][1]}

\* The resolver: one is built from a list of pairs (or the list is rejected)
\* and then asked for the level of a verbosity.
NextResolver ==
    \/ /\ resolver = None
       /\ \E t \in ResolverTables \cup {<< <<-1, DEBUG>> >>} : NewResolver(t)
    \/ \E v \in (0..(MaxVerbosity + 1)) \cup {sys_maxsize - 1} : CallGetLevel(v)

SpecResolver == Init /\ [][NextResolver]_vars

\* role.get_level(verbosity) on the role registered under `name`
CallRoleGetLevel(name, v) ==
    /\ getRole(name) # None
    /\ last' = [NoCall EXCEPT !.op = "Role.get_level", !.role = name, !.arg = v,
                              !.res = Some(get_level(getRole(name)[1], v)),
                              !.out = "ok"]
    /\ Unchanged

\* the verbosity_levels of the roles created: up to two pairs
RoleTables == {t \in ResolverTables : Len(t) <= 2}

\* Role levels: a role x is created from a list of pairs, and the roles of
\* the registry are asked for the level of no verbosity and of a verbosity.
NextRoleLevel ==
    \/ /\ getRole("x") = None
       /\ \E t \in RoleTables : createRole("x", t, INFO)
    \/ \E n \in RoleNames, v \in {None} \cup {Some(i) : i \in 0..(MaxVerbosity + 1)} :
          CallRoleGetLevel(n, v)

SpecRoleLevel == Init /\ [][NextRoleLevel]_vars

\* level_for(setting) called by the application
CallLevelFor(setting) ==
    /\ last' = [NoCall EXCEPT !.op = "level_for", !.arg = Some(setting),
                              !.res = level_for(setting).res,
                              !.out = level_for(setting).out]
    /\ Unchanged

\* logging.addLevelName(value, name)
addLevelName(value, name) ==
    /\ nameToLevel' = nameToLevel \cup {<<name, value>>}
    /\ last' = [NoCall EXCEPT !.op = "addLevelName", !.arg = Some(value),
                              !.out = "ok"]
    /\ UNCHANGED resolver
    /\ UNCHANGED loggingVars
    /\ UNCHANGED threadVars
    /\ UNCHANGED <<level, propagate, handlers, cache, hlevel, hmanager,
                   emittedNoHandlerWarning>>
    /\ UNCHANGED managerVars
    /\ UNCHANGED <<hfilter, moduleVerbosity, slot>>

\* the settings level_for is called with
LevelSettings ==
    {StrSetting(str) : str \in {<<"D", "E", "B", "U", "G">>,
        <<"d", "e", "b", "u", "g">>,
        <<"D", "e", "b", "u", "g">>,
        <<"1", "0">>,
        <<"8">>,
        <<"0", "1", "0">>,
        <<"I", "N", "F", "O">>,
        <<"w", "a", "r", "n", "i", "n", "g">>,
        <<"W", "A", "R", "N">>,
        <<>>,
        <<"T", "R", "A", "C", "E">>,
        <<"t", "r", "a", "c", "e">>,
        <<"5">>,
        <<"N", "o", "t", "i", "c", "e">>,
        <<"2", "5">>,
        <<"1", "O">>}}
    \cup {IntSetting(n) : n \in {0, 10, 20, 30, 40, 50, 8, 5, 25, -10}}
    \cup {ListSetting}

\* the custom levels registered at runtime: TRACE, NOTICE and AUDIT
CustomLevels ==
    { <<<<"T", "R", "A", "C", "E">>, 5>>, <<<<"N", "O", "T", "I", "C", "E">>, 25>>, <<<<"A", "U", "D", "I", "T">>, 35>> }

\* Level resolution: custom levels are registered and settings resolved.
NextLevelFor ==
    \/ \E setting \in LevelSettings : CallLevelFor(setting)
    \/ \E c \in CustomLevels : addLevelName(c[2], c[1])

SpecLevelFor == Init /\ [][NextLevelFor]_vars

\* the verbosities handed to the two setVerbosity functions: below zero,
\* small, the largest valid one, and the sentinel
VerbosityInputs == {-1, 0, 1, sys_maxsize - 1, sys_maxsize}

\* Verbosity bounds: the manager's and the module's verbosity are set and
\* unset while loggers enter and leave the built-in roles.
NextVerbosity ==
    \/ \E v \in VerbosityInputs : setVerbosity(v)
    \/ delVerbosity
    \/ \E v \in VerbosityInputs : moduleSetVerbosity(v)
    \/ moduleDelVerbosity
    \/ \E l \in SplatLoggers, r \in {"app", "lib"} : assignRole(l, r)
    \/ \E l \in SplatLoggers : clearRole(l)

\* what an assignment to an attribute of the logging module or a change of
\* what a handler's renderer does leaves alone
LoggingLeaves ==
    /\ UNCHANGED <<level, propagate, handlers, cache, hlevel, hmanager,
                   emittedNoHandlerWarning>>
    /\ UNCHANGED managerVars
    /\ UNCHANGED filterVars
    /\ UNCHANGED valueVars
    /\ UNCHANGED threadVars
    /\ UNCHANGED slot

\* logging.lastResort = None, or the library's handler (at WARNING) again
setLastResort(v) ==
    /\ lastResort' = v
    /\ last' = [NoCall EXCEPT !.op = "lastResort", !.arg = v, !.out = "ok"]
    /\ UNCHANGED <<raiseExceptions, emitRaises>>
    /\ LoggingLeaves

\* logging.raiseExceptions = b
setRaiseExceptions(b) ==
    /\ raiseExceptions' = b
    /\ last' = [NoCall EXCEPT !.op = "raiseExceptions", !.out = "ok"]
    /\ UNCHANGED <<lastResort, emitRaises>>
    /\ LoggingLeaves

\* from now on the render / encode step of handler h raises e (nothing for "")
setEmitRaises(h, e) ==
    /\ emitRaises' = [emitRaises EXCEPT ![h] = e]
    /\ last' = [NoCall EXCEPT !.op = "emitRaises", !.handler = h, !.out = "ok"]
    /\ UNCHANGED <<lastResort, raiseExceptions>>
    /\ LoggingLeaves

\* Fallbacks of the dispatch: records are logged on pkg and pkg.sub while
\* handlers come and go, the plain handler r1 is raised to ERROR, and the
\* application switches the last-resort handler and raiseExceptions off and
\* on.
NextFallback ==
    \/ \E l \in SplatLoggers, lv \in {INFO, WARNING} : Log(l, lv)
    \/ \E lv \in {NOTSET, DEBUG} : SetLevel("pkg", lv)
    \/ addHandler("pkg", "p1") \/ addHandler("pkg.sub", "r1")
    \/ removeHandler("pkg", "p1") \/ removeHandler("pkg.sub", "r1")
    \/ \E lv \in {NOTSET, ERROR} : HandlerSetLevel("r1", lv)
    \/ \E v \in {None, Some(WARNING)} : setLastResort(v)
    \/ \E b \in BOOLEAN : setRaiseExceptions(b)

SpecFallback == Init /\ [][NextFallback]_vars

\* Failing handlers: records are logged on pkg and pkg.sub while handlers
\* come and go and the renderers of p1 and r1 start and stop failing.
NextFailures ==
    \/ \E l \in SplatLoggers, lv \in {INFO, WARNING} : Log(l, lv)
    \/ \E lv \in {NOTSET, DEBUG} : SetLevel("pkg", lv)
    \/ addHandler("pkg", "p1") \/ addHandler("pkg.sub", "r1")
    \/ removeHandler("pkg", "p1") \/ removeHandler("pkg.sub", "r1")
    \/ \E e \in Failures : setEmitRaises("r1", e)
    \/ \E e \in {"", "Exception"} : setEmitRaises("p1", e)

SpecFailures == Init /\ [][NextFailures]_vars

SpecVerbosity == Init /\ [][NextVerbosity]_vars

\* Two threads of the application call assignRole for pkg and setVerbosity,
\* every statement of one call interleaved with those of the other.
NextRace ==
    \/ \E t \in Threads, r \in {"app", "lib"} : assignRole_call(t, "pkg", r)
    \/ \E t \in Threads : assignRole_189(t)
    \/ \E t \in Threads : assignRole_192(t)
    \/ \E t \in Threads : assignRole_200(t)
    \/ \E t \in Threads : assignRole_201(t)
    \/ \E t \in Threads : assignRole_203(t)
    \/ \E t \in Threads : assignRole_204(t)
    \/ \E t \in Threads, v \in 0..1 : setVerbosity_call(t, v)
    \/ \E t \in Threads : setVerbosity_100(t)
    \/ \E t \in Threads : setVerbosity_103(t)
    \/ \E t \in Threads : setVerbosity_105(t)

SpecRace == Init /\ [][NextRace]_vars

\* Two threads set, delete and read the console slot of pkg, every statement
\* of one call interleaved with those of the other.
NextSlotRace ==
    \/ \E t \in Threads, h \in SlotValues : set_call(t, "pkg", "console", h)
    \/ \E t \in Threads : set_67(t)
    \/ \E t \in Threads : set_68(t)
    \/ \E t \in Threads : set_70(t)
    \/ \E t \in Threads : set_72(t)
    \/ \E t \in Threads : delete_call(t, "pkg", "console")
    \/ \E t \in Threads : delete_75(t)
    \/ \E t \in Threads : delete_76(t)
    \/ \E t \in Threads : delete_78(t)
    \/ \E t \in Threads : read_call(t, "pkg", "console")
    \/ \E t \in Threads : read_62(t)
    \/ \E t \in Threads : read_handlers(t)
    \/ \E t \in Threads : sync_call(t, "pkg", "console")
    \/ \E t \in Threads : sync_31(t)
    \/ \E t \in Threads : sync_body(t)

SpecSlotRace == Init /\ [][NextSlotRace]_vars

\* ------------------------------------------------------------------------
\* The specification's terms, stated over the state
\* ------------------------------------------------------------------------
\* a logger followed by its ancestors, nearest first
Path(l) ==
    IF l = "pkg.sub" THEN <<"pkg.sub", "pkg", Root>>
    ELSE IF l = "pkg" THEN <<"pkg", Root>>
    ELSE <<Root>>

\* the loggers whose sinks see the records of l: l itself, and an ancestor
\* when every logger below it on the path propagates
Reached(l) ==
    {Path(l)[i] : i \in {k \in DOMAIN Path(l) :
                            \A j \in 1..(k - 1) : propagate[Path(l)[j]]}}

SinksInChain(l) == {h \in Handlers : \E a \in Reached(l) : h \in handlers[a]}

\* L_s: the level of the nearest logger on the path that has one, else 0
StandardLevel(l) ==
    IF \A a \in Loggers : (\E i \in DOMAIN Path(l) : Path(l)[i] = a) => level[a] = 0
    THEN 0
    ELSE LET k == CHOOSE i \in DOMAIN Path(l) :
                    /\ level[Path(l)[i]] # 0
                    /\ \A j \in 1..(i - 1) : level[Path(l)[j]] = 0
         IN  level[Path(l)[k]]

\* P: the least non-zero level of a priority sink in the chain, else 0
PriorityFloor(l) ==
    LET S == {h \in SinksInChain(l) : h \in PriorityHandlers /\ hlevel[h] # 0}
    IN  IF S = {} THEN 0
        ELSE hlevel[CHOOSE h \in S : \A g \in S : hlevel[h] <= hlevel[g]]

Least(a, b) == IF a <= b THEN a ELSE b

Greatest(a, b) == IF a >= b THEN a ELSE b

\* the effective logger level of section 4.6 (a)
EffectiveLevel(l) ==
    IF StandardLevel(l) # 0 /\ PriorityFloor(l) # 0
    THEN Least(StandardLevel(l), PriorityFloor(l))
    ELSE Greatest(StandardLevel(l), PriorityFloor(l))

\* the per-sink effective level of section 4.6 (b)
SinkEffectiveLevel(l, h) ==
    IF h \in PriorityHandlers THEN hlevel[h]
    ELSE Greatest(StandardLevel(l), hlevel[h])

\* section 4.4: name is the scope or a dotted descendant of it
ScopeMatches(name, scope) ==
    \/ name = scope
    \/ /\ Len(Chars[name]) > Len(Chars[scope])
       /\ SubSeq(Chars[name], 1, Len(Chars[scope]) + 1) = Append(Chars[scope], ".")

\* the level a table of distinct verbosities gives v: that of the greatest
\* declared verbosity <= v, None below the smallest
StepLevel(table, v) ==
    LET below == {i \in DOMAIN table : table[i][1] <= v}
    IN  IF below = {} THEN None
        ELSE Some(table[CHOOSE i \in below :
                          \A j \in below : table[j][1] <= table[i][1]][2])

\* section 4.4: the sink's verbosity filter, if any, passes the record
FilterPasses(h, name, levelno) ==
    \/ hfilter[h] = None
    \/ moduleVerbosity = None
    \/ LET m == hfilter[h][1]
           matching == {i \in DOMAIN m : ScopeMatches(name, m[i][1])}
       IN  \/ matching = {}
           \/ LET first == CHOOSE i \in matching : \A j \in matching : i <= j
                  lv == StepLevel(m[first][2], moduleVerbosity[1])
              IN  lv = None \/ levelno >= lv[1]

\* ------------------------------------------------------------------------
\* C1..C3: effective levels and dispatch
\* ------------------------------------------------------------------------
\* C1 as stated: after a log call on L at some level, every sink in L's chain
\* has received the record iff the level is at least the sink's effective
\* level and the sink's verbosity filter passes.
C1_AsStated ==
    last.op = "log" =>
        \A S \in SinksInChain(last.logger) :
            S \in last.delivered <=>
                /\ last.arg[1] >= SinkEffectiveLevel(last.logger, S)
                /\ FilterPasses(S, last.logger, last.arg[1])

\* C1 amended: a sink in L's chain receives the record of a log call on L iff
\* the level is at least L's priority-aware effective level (the logger's
\* gate), at least the sink's effective level, and the sink's filter passes;
\* so a priority sink whose level is not NOTSET receives every record at or
\* above its level that its filter passes, and no sink outside the chain
\* receives anything.
C1_Dispatch ==
    last.op = "log" =>
        /\ last.delivered \subseteq SinksInChain(last.logger)
        /\ \A S \in SinksInChain(last.logger) :
            /\ S \in last.delivered <=>
                /\ last.arg[1] >= EffectiveLevel(last.logger)
                /\ last.arg[1] >= SinkEffectiveLevel(last.logger, S)
                /\ FilterPasses(S, last.logger, last.arg[1])
            /\ ( /\ S \in PriorityHandlers
                 /\ hlevel[S] # NOTSET
                 /\ last.arg[1] >= hlevel[S]
                 /\ FilterPasses(S, last.logger, last.arg[1]) )
               => S \in last.delivered

\* C1 witness: an INFO record logged on pkg.sub (own level DEBUG) reaches the
\* priority sink p1, attached to the ancestor pkg, through propagation; the
\* plain sink r1 on pkg.sub passes it by level (its effective level is DEBUG)
\* and blocks it by its verbosity filter (scope pkg at verbosity 1: WARNING).
C1_Witness ==
    /\ last.op = "log" /\ last.logger = "pkg.sub" /\ last.arg = Some(INFO)
    /\ level["pkg.sub"] = DEBUG
    /\ "p1" \in handlers["pkg"] /\ "p1" \notin handlers["pkg.sub"]
    /\ hlevel["p1"] = DEBUG
    /\ propagate["pkg.sub"]
    /\ "r1" \in handlers["pkg.sub"] /\ hlevel["r1"] = NOTSET
    /\ hfilter["r1"] # None /\ moduleVerbosity = Some(1)
    /\ last.delivered = {"p1"}

\* C2: getEffectiveLevel on L returns min(L_s, P) when both are non-zero and
\* max(L_s, P) otherwise, with L_s the level of the nearest logger on the
\* parent chain that has one and P the least non-NOTSET level of the priority
\* sinks attached to L or to ancestors reached while propagate is true.
C2_EffectiveLevel ==
    last.op = "getEffectiveLevel" =>
        last.res = Some(EffectiveLevel(last.logger))

\* C2 witness: pkg.sub does not propagate, so the priority sink p2 at DEBUG on
\* pkg does not count; its own priority sink p1 at INFO lowers WARNING to INFO.
C2_Witness ==
    /\ last.op = "getEffectiveLevel" /\ last.logger = "pkg.sub"
    /\ ~propagate["pkg.sub"]
    /\ "p2" \in handlers["pkg"] /\ hlevel["p2"] = DEBUG
    /\ "p1" \in handlers["pkg.sub"] /\ hlevel["p1"] = INFO
    /\ level["pkg.sub"] = NOTSET /\ level["pkg"] = WARNING
    /\ last.res = Some(INFO)

\* the state of Scenario D: pkg.sub at WARNING with the priority sink p1 at
\* DEBUG and the plain sink r1 at NOTSET attached to it
ScenarioD ==
    /\ level["pkg.sub"] = WARNING
    /\ "p1" \in handlers["pkg.sub"] /\ hlevel["p1"] = DEBUG
    /\ "r1" \in handlers["pkg.sub"] /\ hlevel["r1"] = NOTSET

\* C3: getEffectiveHandlerLevel(S) on L returns S's own level for a priority
\* sink and max(L_s, S's level) otherwise; in Scenario D the logger's
\* effective level is DEBUG, the plain sink's is WARNING, the priority sink's
\* is DEBUG, and an INFO record reaches the priority sink only.
C3_HandlerLevel ==
    /\ last.op = "getEffectiveHandlerLevel" =>
          last.res = Some(SinkEffectiveLevel(last.logger, last.handler))
    /\ ScenarioD =>
          /\ (last.op = "getEffectiveLevel" /\ last.logger = "pkg.sub")
                => last.res = Some(DEBUG)
          /\ (last.op = "getEffectiveHandlerLevel" /\ last.handler = "r1")
                => last.res = Some(WARNING)
          /\ (last.op = "getEffectiveHandlerLevel" /\ last.handler = "p1")
                => last.res = Some(DEBUG)
          /\ (last.op = "log" /\ last.arg = Some(INFO))
                => last.delivered = {"p1"}

\* C3 witness: in Scenario D the plain sink's effective level was asked for
\* and is WARNING although the logger's effective level is DEBUG.
C3_Witness ==
    /\ ScenarioD
    /\ last.op = "getEffectiveHandlerLevel" /\ last.handler = "r1"
    /\ last.res = Some(WARNING)
    /\ getEffectiveLevel("pkg.sub") = DEBUG

\* ------------------------------------------------------------------------
\* C4..C10: role assignment and verbosity
\* ------------------------------------------------------------------------
\* C4 as stated: after a successful assignRole(logger, role) the logger's
\* role reference is the role and the logger is in the role's member set,
\* and, when a verbosity is set and the role is in the registry, the logger's
\* level is role.get_level(verbosity).
C4_AsStated ==
    (last.op = "assignRole" /\ last.out = "ok") =>
        /\ role_name[last.logger] = Some(last.role)
        /\ last.logger \in loggersByRole[last.role]
        /\ (verbosity # None /\ roles[last.role] # None) =>
              level[last.logger] = get_level(roles[last.role][1], verbosity)

\* C5 as stated: with no verbosity set, assigning the built-in lib role to a
\* logger whose level is NOTSET leaves the logger at WARNING, the lib role's
\* default level.
C5_AsStated ==
    [][ ( /\ last'.op = "assignRole" /\ last'.out = "ok" /\ last'.role = "lib"
          /\ roles["lib"] = Some(LIB_ROLE)
          /\ verbosity = None
          /\ level[last'.logger] = NOTSET )
        => level'[last'.logger] = WARNING ]_vars

\* C6: assignRole on a logger that has a different role fails with the
\* role-already-assigned error (AttributeError) and leaves the logger's role
\* reference, every logger level and every member set as they were.
C6_ConflictChangesNothing ==
    [][ ( /\ last'.op = "assignRole"
          /\ role_name[last'.logger] # None
          /\ role_name[last'.logger] # Some(last'.role) )
        => ( /\ last'.out = "AttributeError"
             /\ UNCHANGED <<role_name, level, loggersByRole, verbosity, roles,
                            cache>> ) ]_vars

\* C6 witness: pkg, assigned to lib, was asked to take app and the call failed.
C6_Witness ==
    /\ last.op = "assignRole" /\ last.out = "AttributeError"
    /\ last.logger = "pkg" /\ last.role = "app"
    /\ role_name["pkg"] = Some("lib")
    /\ loggersByRole["lib"] = {"pkg"} /\ loggersByRole["app"] = {}

\* C7: assignRole on a logger that already has that role raises nothing and
\* leaves the member sets, the role reference and the levels unchanged.
C7_SameRoleNoOp ==
    [][ ( /\ last'.op = "assignRole"
          /\ role_name[last'.logger] = Some(last'.role) )
        => ( /\ last'.out = "return"
             /\ UNCHANGED <<role_name, level, loggersByRole, verbosity, roles,
                            cache>> ) ]_vars

\* C7 witness: pkg was assigned lib again, while its level is not the one the
\* lib role gives at the current verbosity.
C7_Witness ==
    /\ last.op = "assignRole" /\ last.out = "return"
    /\ last.logger = "pkg" /\ last.role = "lib"
    /\ role_name["pkg"] = Some("lib")
    /\ verbosity # None /\ roles["lib"] # None
    /\ level["pkg"] # get_level(roles["lib"][1], verbosity)

\* every member of every role of the registry is at the role's level for the
\* optional verbosity v
MembersAtLevelFor(v) ==
    \A r \in RoleNames :
        roles[r] # None =>
            \A l \in loggersByRole[r] : level[l] = get_level(roles[r][1], v)

\* C8: after setVerbosity(v) with v different from the stored verbosity, the
\* stored verbosity is v and every member logger of every role in the
\* registry has the level role.get_level(v).
C8_SetVerbosity ==
    (last.op = "setVerbosity" /\ last.out = "ok") =>
        /\ verbosity = last.arg
        /\ MembersAtLevelFor(last.arg)

\* C8 witness: verbosity went to 3 with pkg in lib and pkg.sub in app: pkg is
\* at INFO and pkg.sub at DEBUG.
C8_Witness ==
    /\ last.op = "setVerbosity" /\ last.out = "ok" /\ last.arg = Some(3)
    /\ loggersByRole["lib"] = {"pkg"} /\ loggersByRole["app"] = {"pkg.sub"}
    /\ roles["lib"] = Some(LIB_ROLE) /\ roles["app"] = Some(APP_ROLE)
    /\ level["pkg"] = INFO /\ level["pkg.sub"] = DEBUG

\* C9: setVerbosity(v) while the stored verbosity is v changes no logger
\* level and no manager state.
C9_SameVerbosityNoOp ==
    [][ (last'.op = "setVerbosity" /\ last'.arg = verbosity)
        => UNCHANGED <<level, cache, verbosity, roles, role_name, loggersByRole,
                       propagate, handlers, hlevel>> ]_vars

\* C9 witness: setVerbosity returned early although a member of a role is not
\* at the role's level for the verbosity (a re-scan would have moved it).
C9_Witness ==
    /\ last.op = "setVerbosity" /\ last.out = "return"
    /\ verbosity = last.arg
    /\ \E r \in RoleNames :
          /\ roles[r] # None
          /\ \E l \in loggersByRole[r] : level[l] # get_level(roles[r][1], verbosity)

\* C10 as stated: after delVerbosity() the verbosity is unset and every
\* member of every role in the registry is at the role's default_level,
\* whatever the state before the call.
C10_AsStated ==
    last.op = "delVerbosity" =>
        /\ verbosity = None
        /\ \A r \in RoleNames :
              roles[r] # None =>
                  \A l \in loggersByRole[r] : level[l] = roles[r][1].default_level

\* C10 amended: delVerbosity() called while a verbosity is set unsets it and
\* leaves every member of every role in the registry at the role's
\* default_level; called while no verbosity is set it changes nothing.
C10_DelVerbosity ==
    [][ last'.op = "delVerbosity" =>
          IF verbosity # None
          THEN /\ verbosity' = None
               /\ \A r \in RoleNames :
                    roles'[r] # None =>
                        \A l \in loggersByRole'[r] :
                            level'[l] = roles'[r][1].default_level
          ELSE UNCHANGED <<level, cache, verbosity, roles, role_name,
                           loggersByRole>> ]_vars

\* C10 witness: the verbosity was unset with pkg in lib, and pkg is back at
\* WARNING.
C10_Witness ==
    /\ last.op = "delVerbosity" /\ last.out = "ok"
    /\ verbosity = None
    /\ loggersByRole["lib"] = {"pkg"} /\ roles["lib"] = Some(LIB_ROLE)
    /\ level["pkg"] = WARNING

\* ------------------------------------------------------------------------
\* C11: clearing a role
\* ------------------------------------------------------------------------
\* C11 as stated: after clearRole on a logger that was assigned to role r the
\* logger is no longer in r's member set, its role reference is cleared and,
\* when a verbosity is set and r is in the registry, the logger's level is
\* r.get_level(verbosity), r being the role name the logger had before.
C11_AsStated ==
    (last.op = "clearRole" /\ last.out = "ok") =>
        /\ last.logger \notin loggersByRole[last.role]
        /\ role_name[last.logger] = None
        /\ (verbosity # None /\ roles[last.role] # None) =>
              level[last.logger] = get_level(roles[last.role][1], verbosity)

\* ------------------------------------------------------------------------
\* C12: handler slots
\* ------------------------------------------------------------------------
\* the handlers a logger's own slots hold
OwnSlotHandlers(l) == {h \in Handlers : Some(h) \in {slot[l].console, slot[l].file}}

\* h is attached to the owner: it is in the logger's handler list, or, for
\* the manager, in the handler list of every logger that has a role
AttachedTo(o, h) ==
    IF o = Manager THEN \A l \in managedLoggers : h \in handlers[l]
    ELSE h \in handlers[o]

\* h is detached from the owner: it is not in the logger's handler list, or,
\* for the manager, in no logger's handler list except where the logger's own
\* slot holds it
DetachedFrom(o, h) ==
    IF o = Manager
    THEN \A l \in SplatLoggers : h \in handlers[l] => h \in OwnSlotHandlers(l)
    ELSE h \notin handlers[o]

\* C12 as stated: after a set or delete on a slot of a logger or of the
\* manager, the slot holds at most one sink, its occupant is attached to the
\* owner, and the occupant it had before, if another, is detached from the
\* owner.
C12_AsStated ==
    [][ last'.op \in {"slot.set", "slot.delete"} =>
          \A o \in Owners, n \in SlotNames :
            (last'.owner = o /\ last'.slot = n) =>
              /\ Len(slot'[o][n]) <= 1
              /\ \A h \in Handlers :
                    slot'[o][n] = Some(h) => AttachedTo(o, h)'
              /\ \A h \in Handlers :
                    (slot[o][n] = Some(h) /\ slot'[o][n] # Some(h))
                        => DetachedFrom(o, h)' ]_vars

\* ------------------------------------------------------------------------
\* C13, C14: the verbosity filter
\* ------------------------------------------------------------------------
\* the map of Scenario B is on r1
ScenarioB == hfilter["r1"] = Some(<< <<"pkg", << <<0, WARNING>>, <<2, DEBUG>> >> >> >>)

\* C13: the filter passes every record when the scope map is empty or the
\* verbosity is unset; otherwise the first scope of the map that is the
\* record's logger name or a dotted ancestor of it decides: the record passes
\* iff the scope's table gives no level for the verbosity or the record's
\* level is at least that level; it passes when no scope matches.  In
\* Scenario B an INFO record of pkg.sub is blocked at verbosity 1 and passes
\* at verbosity 2.
C13_Filter ==
    last.op = "filter" =>
        /\ last.out = (IF FilterPasses(last.handler, last.logger, last.arg[1])
                       THEN "True" ELSE "False")
        /\ (hfilter[last.handler] = Some(<<>>) \/ moduleVerbosity = None)
              => last.out = "True"
        /\ (ScenarioB /\ last.logger = "pkg.sub" /\ last.arg = Some(INFO)) =>
              /\ moduleVerbosity = Some(1) => last.out = "False"
              /\ moduleVerbosity = Some(2) => last.out = "True"

\* C13 witness: in Scenario B at verbosity 1 the INFO record of pkg.sub was
\* blocked.
C13_Witness ==
    /\ last.op = "filter" /\ last.logger = "pkg.sub" /\ last.arg = Some(INFO)
    /\ ScenarioB /\ moduleVerbosity = Some(1)
    /\ last.out = "False"

\* the scope of the map m that matches the name and is the longest to do so
LongestMatch(m, name) ==
    CHOOSE i \in DOMAIN m :
        /\ ScopeMatches(name, m[i][1])
        /\ \A j \in DOMAIN m :
              ScopeMatches(name, m[j][1]) => Len(Chars[m[j][1]]) <= Len(Chars[m[i][1]])

\* C14 as stated: when the map holds a scope and a dotted descendant of it, a
\* record under the descendant is judged by the table of the longest matching
\* scope, in whatever order the map lists the scopes.
C14_AsStated ==
    ( /\ last.op = "filter"
      /\ moduleVerbosity # None
      /\ hfilter[last.handler] # None
      /\ \E i \in DOMAIN hfilter[last.handler][1] :
            ScopeMatches(last.logger, hfilter[last.handler][1][i][1]) )
    => LET m  == hfilter[last.handler][1]
           lv == StepLevel(m[LongestMatch(m, last.logger)][2], moduleVerbosity[1])
       IN  last.out = (IF lv = None \/ last.arg[1] >= lv[1] THEN "True" ELSE "False")

\* ------------------------------------------------------------------------
\* C15: VerbosityLevelResolver
\* ------------------------------------------------------------------------
\* C15: for a resolver built from pairs with distinct valid verbosities in
\* any order, getLevel(v) is the level of the greatest declared verbosity
\* <= v (up to the sentinel, for v at or above the smallest declared
\* verbosity) and None for v below the smallest declared verbosity, so always
\* None when no pair is declared.
C15_GetLevel ==
    last.op = "getLevel" =>
        LET t == resolver[1]._levels
            v == last.arg[1]
        IN  /\ last.res = StepLevel(t, v)
            /\ (\A i \in DOMAIN t : v < t[i][1]) <=> last.res = None
            /\ t = <<>> => last.res = None

\* C15 witness: the resolver was built from (4, DEBUG), (1, WARNING), in this
\* order, and gives WARNING for verbosity 2.
C15_Witness ==
    /\ last.op = "getLevel" /\ last.arg = Some(2)
    /\ resolver # None
    /\ resolver[1]._levels = << <<4, DEBUG>>, <<1, WARNING>> >>
    /\ last.res = Some(WARNING)

\* ------------------------------------------------------------------------
\* C16: Role.get_level
\* ------------------------------------------------------------------------
\* C16: get_level(None) is the role's default_level; get_level(v) is the
\* level of the greatest declared verbosity <= v, and the default_level when
\* v is below the smallest declared verbosity.  For the app role, (0, INFO),
\* (1, DEBUG) with default WARNING: None gives WARNING, 0 INFO, 1 DEBUG,
\* 2 DEBUG, 5 DEBUG.
C16_RoleGetLevel ==
    last.op = "Role.get_level" =>
        LET role == roles[last.role][1]
            step == IF last.arg = None THEN None
                    ELSE StepLevel(role.verbosity_levels, last.arg[1])
        IN  /\ last.res = (IF step = None THEN Some(role.default_level) ELSE step)
            /\ last.role = "app" =>
                  /\ last.arg = None => last.res = Some(WARNING)
                  /\ last.arg = Some(0) => last.res = Some(INFO)
                  /\ last.arg = Some(1) => last.res = Some(DEBUG)
                  /\ last.arg = Some(2) => last.res = Some(DEBUG)
                  /\ last.arg = Some(5) => last.res = Some(DEBUG)

\* C16 witness: the role x, created from (4, DEBUG), (1, WARNING) with
\* default INFO, gives its default for verbosity 0, below its smallest.
C16_Witness ==
    /\ last.op = "Role.get_level" /\ last.role = "x" /\ last.arg = Some(0)
    /\ roles["x"] # None
    /\ roles["x"][1].verbosity_levels = << <<4, DEBUG>>, <<1, WARNING>> >>
    /\ last.res = Some(INFO)

\* ------------------------------------------------------------------------
\* C17, C18: level_for
\* ------------------------------------------------------------------------
\* the canonical level values and names
CanonicalValues == {0, 10, 20, 30, 40, 50}

CanonicalNames ==
    { <<<<"C", "R", "I", "T", "I", "C", "A", "L">>, 50>>, <<<<"F", "A", "T", "A", "L">>, 50>>, <<<<"E", "R", "R", "O", "R">>, 40>>, <<<<"W", "A", "R", "N", "I", "N", "G">>, 30>>,
      <<<<"I", "N", "F", "O">>, 20>>, <<<<"D", "E", "B", "U", "G">>, 10>>, <<<<"N", "O", "T", "S", "E", "T">>, 0>> }

\* what resolving the integer n gives
ResolvedInt(n) ==
    IF n \in CanonicalValues THEN Returns(n)
    ELSE Raises("ValueError: Unknown log level integer")

\* C17: level_for returns an integer of the canonical set unchanged and
\* fails with the unknown-level error for any other integer; resolves an
\* all-digit string as the integer it denotes; upper-cases any other string
\* and looks it up in the canonical name table, failing with the
\* unknown-level-name error on a miss; fails with the type error for any
\* other input.  "DEBUG", "debug", "Debug", "10" and 10 give 10, "8" fails,
\* and resolving a result again gives the same value.
C17_LevelFor ==
    last.op = "level_for" =>
        LET setting == last.arg[1]
            result  == [out |-> last.out, res |-> last.res]
        IN  /\ setting.kind = "int" => result = ResolvedInt(setting.i)
            /\ (setting.kind = "str" /\ isdigit(setting.s))
                  => result = ResolvedInt(int(setting.s))
            /\ (setting.kind = "str" /\ ~isdigit(setting.s)) =>
                  IF \E c \in CanonicalNames : c[1] = upper(setting.s)
                  THEN \E c \in CanonicalNames :
                          c[1] = upper(setting.s) /\ result = Returns(c[2])
                  ELSE result = Raises("ValueError: Unknown log level name")
            /\ setting.kind = "list" => result = Raises("TypeError")
            /\ setting \in {StrSetting(<<"D", "E", "B", "U", "G">>), StrSetting(<<"d", "e", "b", "u", "g">>), StrSetting(<<"D", "e", "b", "u", "g">>),
                            StrSetting(<<"1", "0">>), IntSetting(10)}
                  => result = Returns(10)
            /\ setting = StrSetting(<<"8">>) => result.out # "ok"
            /\ result.out = "ok" => level_for(IntSetting(result.res[1])) = result

\* C17 witness: "Debug" was resolved to 10 after a custom level was
\* registered.
C17_Witness ==
    /\ last.op = "level_for" /\ last.arg = Some(StrSetting(<<"D", "e", "b", "u", "g">>))
    /\ last.out = "ok" /\ last.res = Some(DEBUG)
    /\ nameToLevel # {}

\* C18 as stated: once a custom level (value, name) is registered, resolving
\* the name, in any letter case, or the value, as an integer or as a string
\* of digits, gives the registered value.
C18_AsStated ==
    last.op = "level_for" =>
        \A c \in nameToLevel :
            LET setting == last.arg[1]
            IN  ( \/ setting.kind = "int" /\ setting.i = c[2]
                  \/ setting.kind = "str" /\ isdigit(setting.s) /\ int(setting.s) = c[2]
                  \/ setting.kind = "str" /\ upper(setting.s) = upper(c[1]) )
                => (last.out = "ok" /\ last.res = Some(c[2]))

\* ------------------------------------------------------------------------
\* C19: the role registry
\* ------------------------------------------------------------------------
\* C19 as stated: whatever roles are created and deleted, the built-in roles
\* the manager was constructed with stay in the registry, and createRole
\* never replaces a role that is registered under the name.
C19_AsStated ==
    [][ /\ roles'["app"] # None
        /\ roles'["lib"] # None
        /\ \A n \in RoleNames :
              (last'.op = "createRole" /\ last'.role = n /\ roles[n] # None)
                  => roles'[n] = roles[n] ]_vars

\* ------------------------------------------------------------------------
\* C20: verbosity bounds
\* ------------------------------------------------------------------------
\* v is at least 0 and below the maximum sentinel
InBounds(v) == 0 <= v /\ v < sys_maxsize

\* C20 as stated: SplatManager.setVerbosity and the module's setVerbosity
\* reject a verbosity below 0 or not below the sentinel with an error, so the
\* stored verbosity of either is always unset or within [0, sentinel).
C20_AsStated ==
    /\ (last.op \in {"setVerbosity", "verbosity.setVerbosity"} /\ ~InBounds(last.arg[1]))
          => last.out = "TypeError"
    /\ verbosity = None \/ InBounds(verbosity[1])
    /\ moduleVerbosity = None \/ InBounds(moduleVerbosity[1])

\* ------------------------------------------------------------------------
\* C21: concurrent role assignment
\* ------------------------------------------------------------------------
\* the calls of t and u have both returned and each was running at some
\* moment of the other
Overlapped(t, u) ==
    /\ t # u
    /\ threads[t].pc = "idle" /\ threads[u].pc = "idle"
    /\ u \in threads[t].during /\ t \in threads[u].during

\* C21 as stated: when two threads have concurrently called assignRole for
\* the same logger, unassigned when both calls began, with two different
\* roles, exactly one call succeeded and the other failed with the
\* role-already-assigned error, and the logger is in the member set of the
\* role its role reference names and in no other.
C21_AsStated ==
    \A t, u \in Threads :
        ( /\ Overlapped(t, u)
          /\ threads[t].op = "assignRole" /\ threads[u].op = "assignRole"
          /\ threads[t].logger = threads[u].logger
          /\ threads[t].role # threads[u].role
          /\ threads[t].fresh /\ threads[u].fresh )
        => /\ {threads[t].out, threads[u].out} = {"ok", "AttributeError"}
           /\ \A r \in RoleNames :
                 threads[t].logger \in loggersByRole[r]
                    <=> role_name[threads[t].logger] = Some(r)

\* ------------------------------------------------------------------------
\* C29: setVerbosity concurrent with assignRole
\* ------------------------------------------------------------------------
\* C29 as stated: when setVerbosity(v) on one thread has run concurrently
\* with a successful assignRole(L, r) on another, then after both calls have
\* completed, v being the stored verbosity and r a role of the registry, L's
\* level is r.get_level(v).
C29_AsStated ==
    \A t, u \in Threads :
        ( /\ Overlapped(t, u)
          /\ threads[t].op = "setVerbosity"
          /\ threads[t].out \in {"ok", "return"}
          /\ threads[u].op = "assignRole" /\ threads[u].out = "ok"
          /\ verbosity = threads[t].arg
          /\ roles[threads[u].role] # None )
        => level[threads[u].logger]
              = get_level(roles[threads[u].role][1], threads[t].arg)

\* ------------------------------------------------------------------------
\* C22: slot mutation and concurrent readers
\* ------------------------------------------------------------------------
\* C22 as stated: a thread that has read a logger's slot and the logger's
\* handler list while another thread is setting or deleting the slot has not
\* observed a slot occupant that is missing from the handler list (not yet
\* attached, or already detached).
C22_AsStated ==
    \A t, u \in Threads :
        ( /\ threads[t].pc = "idle" /\ threads[t].op \in {"read", "sync"}
          /\ u \in threads[t].during
          /\ threads[u].pc # "idle"
          /\ threads[u].op \in {"slot.set", "slot.delete"}
          /\ t \in threads[u].during
          /\ threads[t].seenSlot # None )
        => threads[t].seenSlot[1] \in threads[t].seenHandlers

\* ------------------------------------------------------------------------
\* C23..C25: the fallbacks of the dispatch
\* ------------------------------------------------------------------------
\* C23 as stated: whenever no sink in the logger's chain has received a
\* dispatched record (also when sinks are attached and every one of them
\* blocked it), the record went to the last-resort sink if one is configured
\* and the record's level is at least that sink's level.
C23_AsStated ==
    ( /\ last.op = "log" /\ last.enabled
      /\ last.delivered = {}
      /\ lastResort # None /\ last.arg[1] >= lastResort[1] )
    => last.lastResort

\* C23 amended: a record that passed the logger's gate goes to the
\* last-resort sink iff no sink at all is attached in the logger's chain, a
\* last-resort sink is configured and the record's level is at least its
\* level; when a sink is attached in the chain the last-resort sink gets
\* nothing, also when every attached sink blocked the record.
C23_LastResort ==
    last.op = "log" =>
        ( last.lastResort <=>
            /\ last.arg[1] >= EffectiveLevel(last.logger)
            /\ SinksInChain(last.logger) = {}
            /\ lastResort # None
            /\ last.arg[1] >= lastResort[1] )

\* C23 witness: a WARNING record logged on pkg.sub with no sink in its chain
\* went to the last-resort sink.
C23_Witness ==
    /\ last.op = "log" /\ last.logger = "pkg.sub" /\ last.arg = Some(WARNING)
    /\ SinksInChain("pkg.sub") = {}
    /\ lastResort = Some(WARNING)
    /\ last.delivered = {} /\ last.lastResort

\* C24: the "no handlers could be found" notice is written only by a log
\* call whose record reached no sink (none is attached in the chain) while
\* no last-resort sink is configured, raiseExceptions is on and the notice
\* was not written before; writing it sets the manager's flag, and once the
\* flag is set it stays set and no log call writes the notice again.
C24_NoticeOnce ==
    [][ /\ last'.warned =>
            /\ last'.op = "log"
            /\ last'.delivered = {} /\ SinksInChain(last'.logger) = {}
            /\ lastResort = None
            /\ raiseExceptions
            /\ ~emittedNoHandlerWarning
            /\ emittedNoHandlerWarning'
        /\ emittedNoHandlerWarning =>
            /\ emittedNoHandlerWarning'
            /\ ~last'.warned ]_vars

\* C24 witness: the notice was written before, and a WARNING record logged
\* on pkg with no sink in its chain, no last-resort sink and raiseExceptions
\* on was dropped without a notice.
C24_Witness ==
    /\ last.op = "log" /\ last.logger = "pkg" /\ last.arg = Some(WARNING)
    /\ last.enabled /\ SinksInChain("pkg") = {}
    /\ lastResort = None /\ raiseExceptions
    /\ emittedNoHandlerWarning /\ ~last.warned

\* the sinks of the chain that should receive a record of logger l at levelno
ShouldReceive(l, levelno) ==
    {S \in SinksInChain(l) :
        /\ levelno >= EffectiveLevel(l)
        /\ levelno >= SinkEffectiveLevel(l, S)
        /\ FilterPasses(S, l, levelno)}

\* C25: a log call is left by an exception only when the render / encode
\* step of a sink that should receive the record raises RecursionError,
\* KeyboardInterrupt or SystemExit, and then by that exception; otherwise
\* the call returns normally, every sink that should receive the record has
\* received it, and exactly the sinks whose step failed with an ordinary
\* exception were reported through handleError.
C25_SinkFailure ==
    last.op = "log" =>
        LET should == ShouldReceive(last.logger, last.arg[1])
            fatal  == {S \in should : emitRaises[S] \in FatalErrors}
        IN  /\ last.out = "ok" <=> fatal = {}
            /\ last.out # "ok" =>
                  /\ last.out \in FatalErrors
                  /\ \E S \in fatal : emitRaises[S] = last.out
            /\ last.out = "ok" =>
                  /\ last.delivered = should
                  /\ last.failed = {S \in should : emitRaises[S] = "Exception"}

\* C25 witness: the renderer of r1 on pkg.sub fails with an ordinary
\* exception; a WARNING record logged on pkg.sub was reported for r1, reached
\* p1 on pkg as well, and the call returned.
C25_Witness ==
    /\ last.op = "log" /\ last.logger = "pkg.sub" /\ last.arg = Some(WARNING)
    /\ emitRaises["r1"] = "Exception" /\ emitRaises["p1"] = ""
    /\ "r1" \in handlers["pkg.sub"] /\ "p1" \in handlers["pkg"]
    /\ last.out = "ok"
    /\ last.failed = {"r1"} /\ last.delivered = {"p1", "r1"}

\* ------------------------------------------------------------------------
\* C26, C27: invariants of the role manager
\* ------------------------------------------------------------------------
\* C26: a logger is in the member set of role r exactly when its role
\* reference is r; so it is unassigned or assigned to one role, and in at
\* most one member set.
C26_RoleState ==
    \A l \in SplatLoggers :
        /\ \A r \in RoleNames : l \in loggersByRole[r] <=> role_name[l] = Some(r)
        /\ Cardinality({r \in RoleNames : l \in loggersByRole[r]}) <= 1

\* C26 witness: pkg.sub is in app, pkg was cleared of its role, and the last
\* call, assigning lib to pkg.sub, failed.
C26_Witness ==
    /\ last.op = "assignRole" /\ last.out = "AttributeError"
    /\ last.logger = "pkg.sub" /\ last.role = "lib"
    /\ role_name["pkg.sub"] = Some("app") /\ role_name["pkg"] = None
    /\ loggersByRole["app"] = {"pkg.sub"} /\ loggersByRole["lib"] = {}
    /\ level["pkg"] # NOTSET

\* C27 as stated: while a verbosity is set, every logger assigned to a role
\* of the registry is at the level role.get_level(verbosity).
C27_AsStated ==
    verbosity # None =>
        \A l \in SplatLoggers :
            (role_name[l] # None /\ roles[role_name[l][1]] # None)
                => level[l] = get_level(roles[role_name[l][1]][1], verbosity)

\* ------------------------------------------------------------------------
\* C28: assigning None to a slot
\* ------------------------------------------------------------------------
\* C28 as stated: after any sequence of slot assignments, the handler list
\* of every logger holds real sinks only and never None; and right after
\* None was assigned to a slot, the slot reads None and the handler lists
\* are those that deleting the slot would have left.
C28_AsStated ==
    /\ \A l \in Loggers : NoneHandler \notin handlers[l]
    /\ (last.op = "slot.set" /\ last.arg = None)
          => slot[last.owner][last.slot] = None

\* ------------------------------------------------------------------------
\* C30: the enabled-for cache and the priority sinks
\* ------------------------------------------------------------------------
\* C30: a call that attaches a priority sink to a SplatLogger or removes it
\* from one, and a setLevel on a priority sink that is attached to a
\* SplatLogger, leave the enabled-for cache of every logger empty; and every
\* log call is let through exactly when its level is at or above the
\* effective level of the logger as it is at the call, whatever was cached
\* before.
C30_CacheCleared ==
    [][ /\ (/\ last'.op \in {"addHandler", "removeHandler"}
            /\ last'.logger \in SplatLoggers
            /\ last'.handler \in PriorityHandlers)
              => cache' = clearedCache
        /\ (/\ last'.op = "Handler.setLevel"
            /\ last'.handler \in PriorityHandlers
            /\ \E l \in SplatLoggers : last'.handler \in handlers[l])
              => cache' = clearedCache
        /\ \A l \in SplatLoggers, lv \in {DEBUG, INFO, WARNING} :
              (last'.op = "log" /\ last'.logger = l /\ last'.arg = Some(lv))
                 => last'.enabled = (lv >= EffectiveLevel(l))
      ]_vars

\* C30 witness: pkg.sub, below pkg at WARNING, had turned a DEBUG record
\* down and cached that; then the priority sink p1 attached to pkg was set
\* to DEBUG, which makes DEBUG the effective level of pkg.sub, and the cache
\* is empty.
C30_Witness ==
    /\ last.op = "Handler.setLevel" /\ last.handler = "p1"
    /\ last.arg = Some(DEBUG)
    /\ "p1" \in handlers["pkg"] /\ propagate["pkg.sub"]
    /\ level["pkg"] = WARNING /\ level["pkg.sub"] = NOTSET
    /\ <<DEBUG, FALSE>> \in last.cached["pkg.sub"]
    /\ EffectiveLevel("pkg.sub") = DEBUG
    /\ cache = clearedCache
====
